---- MODULE Spec2Model ----
(***************************************************************************)
(* AutoFit Tabs (bwya77/autofit-tabs): the tab-width calculator and the    *)
(* event-loop machinery of TabManager (src/unnamed/part_001) together with *)
(* AutoFitTabsPlugin.saveSettings (src/src/main.ts).                       *)
(*                                                                         *)
(* Lengths are counted in 1/SubPx of a CSS pixel, so that the fractional   *)
(* settings the settings UI accepts (Number("12.5")) and Math.ceil are     *)
(* both represented.                                                       *)
(***************************************************************************)
EXTENDS Integers, Sequences, FiniteSets, TLC

\* ------------------------------------------------------------------ bounds
SubPx == 2
MaxTabs == 2
MaxTitleLen == 2
CharPx == 30
MaxCalls == 2
MaxTimers == 2
MaxSaves == 2
MaxEvents == 4
\* host and user events in a behaviour of FairSpec
LiveEvents == 2
\* field inputs in a behaviour of the settings specification
MaxInputs == 1
\* characters in a field text
MaxTextLen == 2
\* different markups a tab icon can have
MaxIcons == 2
\* the clock of the debounce specification stops after MaxTime ticks of 50 ms
MaxTime == 6
\* re-assertion writes counted per observed change of an icon
MaxWrites == 3

\* ------------------------------------------------------------- arithmetic
Px(n) == n * SubPx
Max(a, b) == IF a >= b THEN a ELSE b
Min(a, b) == IF a <= b THEN a ELSE b
\* Math.ceil on a length counted in 1/SubPx px
Ceil(x) == ((x + SubPx - 1) \div SubPx) * SubPx

\* --------------------------------------------------------------- settings
DEFAULT_SETTINGS ==
    [ minWidth |-> Px(40), leftPadding |-> Px(12),
      closeButtonLeftPadding |-> Px(30), closeButtonRightPadding |-> Px(8),
      transitionDuration |-> 375, iconWidth |-> Px(20), maxWidth |-> 0,
      ignorePinnedTabs |-> FALSE, hideTabIcons |-> FALSE ]

\* -------------------------------------------------- the width calculator
measureTextWidth_NoBuffer(offsetWidth) == Ceil(offsetWidth)

\* measureTextWidth, given the offsetWidth the probe element reports for the
\* text (measureElement is set by initialize before any call)
measureTextWidth(offsetWidth) == Ceil(offsetWidth) + Px(5)

iconSpaceNeeded(S) ==
    IF S.hideTabIcons THEN 0 ELSE (IF S.iconWidth > 0 THEN S.iconWidth ELSE 0)

calculateHeaderWidth_NoMinWidth(hasTitle, offsetWidth, S) ==
    IF ~hasTitle THEN S.minWidth
    ELSE LET textWidth == measureTextWidth(offsetWidth)
             calculatedWidth ==
                 Ceil(S.leftPadding + iconSpaceNeeded(S) + textWidth
                      + S.closeButtonLeftPadding + S.closeButtonRightPadding)
         IN  IF S.maxWidth > 0 THEN Min(calculatedWidth, S.maxWidth)
             ELSE calculatedWidth

calculateHeaderWidth_NoIcon(hasTitle, offsetWidth, S) ==
    IF ~hasTitle THEN S.minWidth
    ELSE LET textWidth == measureTextWidth(offsetWidth)
             calculatedWidth ==
                 Ceil(Max(S.leftPadding + textWidth
                          + S.closeButtonLeftPadding + S.closeButtonRightPadding,
                          S.minWidth))
         IN  IF S.maxWidth > 0 THEN Min(calculatedWidth, S.maxWidth)
             ELSE calculatedWidth

\* a header without a title element is measured as an empty text
calculateHeaderWidth_NoTitleGuard(hasTitle, offsetWidth, S) ==
    LET textWidth == measureTextWidth(IF hasTitle THEN offsetWidth ELSE 0)
        calculatedWidth ==
            Ceil(Max(S.leftPadding + iconSpaceNeeded(S) + textWidth
                     + S.closeButtonLeftPadding + S.closeButtonRightPadding,
                     S.minWidth))
    IN  IF S.maxWidth > 0 THEN Min(calculatedWidth, S.maxWidth)
        ELSE calculatedWidth

\* a width above the maximum falls back to the minimum
calculateHeaderWidth_FallbackToMin(hasTitle, offsetWidth, S) ==
    IF ~hasTitle THEN S.minWidth
    ELSE LET textWidth == measureTextWidth(offsetWidth)
             calculatedWidth ==
                 Ceil(Max(S.leftPadding + iconSpaceNeeded(S) + textWidth
                          + S.closeButtonLeftPadding + S.closeButtonRightPadding,
                          S.minWidth))
         IN  IF S.maxWidth > 0 /\ calculatedWidth > S.maxWidth THEN S.minWidth
             ELSE calculatedWidth

\* calculateHeaderWidth(header): hasTitle says whether the header has a
\* .workspace-tab-header-inner-title element, offsetWidth is what the probe
\* element measures for its text.
calculateHeaderWidth(hasTitle, offsetWidth, S) ==
    IF ~hasTitle THEN S.minWidth
    ELSE LET textWidth == measureTextWidth(offsetWidth)
             calculatedWidth ==
                 Ceil(Max(S.leftPadding + iconSpaceNeeded(S) + textWidth
                          + S.closeButtonLeftPadding + S.closeButtonRightPadding,
                          S.minWidth))
         IN  IF S.maxWidth > 0 THEN Min(calculatedWidth, S.maxWidth)
             ELSE calculatedWidth

\* ------------------------------------------------------------------ state
VARIABLES
    settings,            \* plugin.settings
    tabWidthCache,       \* TabManager.tabWidthCache: title text -> width
    isAdjustmentQueued,  \* TabManager.isAdjustmentQueued
    isResetting,         \* TabManager.isResetting
    closeInProgress,     \* TabManager.closeInProgress
    debounceTimeout,     \* TabManager.debounceTimeout: TRUE iff it holds a timer id
    observer,            \* TabManager.observer is connected
    headers,             \* the host's main-area tab header elements
    rafQueue,            \* requestAnimationFrame callbacks waiting for the next frame
    timers,              \* setTimeout callbacks waiting, in creation order
    pendingSaves,        \* saveSettings calls suspended at `await saveData`
    frameLog,            \* history: what the callbacks of the latest frame did
    calls,               \* history: the calls the queued callback stands for
    events,              \* history: the host and user events so far
    probe,               \* input of the calculator, settings and scroll specifications
    result               \* their output; the icon elements of the icon specification

vars == << settings, tabWidthCache, isAdjustmentQueued, isResetting,
           closeInProgress, debounceTimeout, observer, headers, rafQueue,
           timers, pendingSaves, frameLog, calls, events, probe, result >>

Tabs == 1..MaxTabs
NoWidth == -1          \* no --header-width property on the element
NoTitleEl == -1        \* the header has no title element
\* A title text of n characters is written n; its key in the cache is the text.
Titles == 1..MaxTitleLen
\* what the hidden probe element measures for a text (the browser's layout)
OffsetWidth(title) == Px(CharPx * title)
\* the maxWidth value the settings UI switches to in this model
MaxWidthOn == Px(120)

\* The program state as one record, so that a handler is an operator from
\* state to state and handlers compose as the calls in the code do.
Cur ==
    [ settings |-> settings, tabWidthCache |-> tabWidthCache,
      isAdjustmentQueued |-> isAdjustmentQueued, isResetting |-> isResetting,
      closeInProgress |-> closeInProgress, debounceTimeout |-> debounceTimeout,
      observer |-> observer, headers |-> headers, rafQueue |-> rafQueue,
      timers |-> timers, pendingSaves |-> pendingSaves, frameLog |-> frameLog,
      calls |-> calls ]

Set(s) ==
    \E r \in {s} :
        /\ settings' = r.settings
        /\ tabWidthCache' = r.tabWidthCache
        /\ isAdjustmentQueued' = r.isAdjustmentQueued
        /\ isResetting' = r.isResetting
        /\ closeInProgress' = r.closeInProgress
        /\ debounceTimeout' = r.debounceTimeout
        /\ observer' = r.observer
        /\ headers' = r.headers
        /\ rafQueue' = r.rafQueue
        /\ timers' = r.timers
        /\ pendingSaves' = r.pendingSaves
        /\ frameLog' = r.frameLog
        /\ calls' = r.calls
        /\ UNCHANGED << probe, result >>

\* a step other than an animation frame: frameLog describes the latest step only
Step(s) == Set([s EXCEPT !.frameLog = << >>]) /\ UNCHANGED events

\* a host or user event: at most MaxEvents of them in a behaviour
Event(s) ==
    /\ events < MaxEvents
    /\ Set([s EXCEPT !.frameLog = << >>])
    /\ events' = events + 1

RafCb(kind, data) == [kind |-> kind, data |-> data]
Timer(kind, tab, hdrs) == [kind |-> kind, tab |-> tab, hdrs |-> hdrs]

SeqRemove(q, i) == SubSeq(q, 1, i - 1) \o SubSeq(q, i + 1, Len(q))
Count(q, x) == Cardinality({i \in 1..Len(q) : q[i] = x})
CountKind(q, k) == Cardinality({i \in 1..Len(q) : q[i].kind = k})

\* ------------------------------------------------------------ DOM queries
\* Where a header element is (field dom): "dom" in the document inside
\* .workspace-split.mod-vertical.mod-root, "side" in the document outside it,
\* "new" not yet created, "gone" removed from the document.
InDocument(h) == h.dom \in {"dom", "side"}

getAllHeaders_AnyArea(s) == {t \in Tabs : InDocument(s.headers[t])}

\* getAllHeaders: the main-area headers in the document, in document order
getAllHeaders(s) == {t \in Tabs : s.headers[t].dom = "dom"}

RECURSIVE InOrder(_)
InOrder(S) ==
    IF S = {} THEN << >>
    ELSE LET m == CHOOSE x \in S : \A y \in S : x <= y
         IN  << m >> \o InOrder(S \ {m})

\* getHeaderKey: titleElement?.textContent || ''  (the empty text is written 0)
getHeaderKey(h) == IF h.title = NoTitleEl THEN 0 ELSE h.title

headerWidth(h, S) ==
    calculateHeaderWidth(h.title # NoTitleEl,
                         IF h.title = NoTitleEl THEN 0 ELSE OffsetWidth(h.title), S)

\* ---------------------------------------------------- recalculation passes
Log(s, what) == [s EXCEPT !.frameLog = Append(@, what)]

\* adjustAllHeaders, up to its requestAnimationFrame: the read phase.  Every
\* main-area header in the document is taken (the container's display and the
\* icon-loading class are not modelled: every header is visible).
headerData(s) ==
    LET hs == InOrder(getAllHeaders(s))
    IN  [ i \in 1..Len(hs) |->
            LET h == s.headers[hs[i]]
                headerKey == getHeaderKey(h)
                cached == headerKey \in DOMAIN s.tabWidthCache
                needsRecalc == ~cached \/ h.isActive
                isPinned == s.settings.ignorePinnedTabs /\ h.pinned
            IN  [ tab |-> hs[i], headerKey |-> headerKey, isActive |-> h.isActive,
                  isPinned |-> isPinned,
                  cachedWidth |-> IF needsRecalc /\ ~isPinned
                                  THEN headerWidth(h, s.settings)
                                  ELSE IF cached THEN s.tabWidthCache[headerKey]
                                       ELSE NoWidth ] ]

\* caller is history: "queued" when the queued callback makes the call, "reset"
\* when the last timer of resetTabs does; the write callback carries it.
adjustAllHeaders_NoResetGuard(s, caller) ==
    [ Log(s, "read") EXCEPT
        !.rafQueue = Append(@, RafCb("write", [by |-> caller, rows |-> headerData(s)])) ]

adjustAllHeaders(s, caller) ==
    IF s.isResetting THEN s
    ELSE [ Log(s, "read") EXCEPT
             !.rafQueue = Append(@, RafCb("write", [by |-> caller,
                                                    rows |-> headerData(s)])) ]

\* One entry of the write phase applied to its header element.  A header that
\* has left the document is never read again by a pass: its style is left alone.
writeHeader_NoSlack(h, width, S) ==
    IF ~InDocument(h) THEN h
    ELSE IF S.maxWidth > 0 /\ width >= S.maxWidth
         THEN [h EXCEPT !.classes = (@ \cup {"autofit-tab", "autofit-max-width"}),
                        !.width = Min(width, S.maxWidth)]
         ELSE [h EXCEPT !.classes = (@ \cup {"autofit-tab"}) \ {"autofit-max-width"},
                        !.width = width]

writeHeader(h, width, S) ==
    IF ~InDocument(h) THEN h
    ELSE IF S.maxWidth > 0 /\ width >= S.maxWidth
         THEN [h EXCEPT !.classes = (@ \cup {"autofit-tab", "autofit-max-width"}),
                        !.width = Min(width, S.maxWidth + Px(20))]
         ELSE [h EXCEPT !.classes = (@ \cup {"autofit-tab"}) \ {"autofit-max-width"},
                        !.width = width]

\* the write phase on a pinned header: classes and property are removed
unstyleHeader(h) ==
    IF ~InDocument(h) THEN h
    ELSE [h EXCEPT !.classes = @ \ {"autofit-tab", "autofit-max-width"},
                   !.width = NoWidth]

RECURSIVE newCache(_, _)
\* the Map the write phase fills, entry by entry (a later entry overwrites;
\* a pinned header's entry is skipped)
newCache(data, n) ==
    IF n = 0 THEN << >>
    ELSE LET c == newCache(data, n - 1)
             d == data[n]
         IN  IF d.isPinned THEN c
             ELSE [ k \in DOMAIN c \cup {d.headerKey} |->
                      IF k = d.headerKey THEN d.cachedWidth ELSE c[k] ]

\* a write phase that sets its entries in the Map in use
writePhase_SameMap(s, pass) ==
    LET data == pass.rows
        entryOf(t) == CHOOSE i \in 1..Len(data) : data[i].tab = t
        written == { data[i].tab : i \in 1..Len(data) }
        fresh == newCache(data, Len(data))
    IN  [ Log(s, IF pass.by = "queued" THEN "write" ELSE "writeReset") EXCEPT
            !.headers = [ t \in Tabs |->
                            IF t \in written
                            THEN IF data[entryOf(t)].isPinned
                                 THEN unstyleHeader(s.headers[t])
                                 ELSE writeHeader(s.headers[t],
                                                  data[entryOf(t)].cachedWidth,
                                                  s.settings)
                            ELSE s.headers[t] ],
            !.tabWidthCache = [ k \in DOMAIN fresh \cup DOMAIN s.tabWidthCache |->
                                  IF k \in DOMAIN fresh THEN fresh[k]
                                  ELSE s.tabWidthCache[k] ] ]

\* the requestAnimationFrame callback of adjustAllHeaders: the write phase
writePhase(s, pass) ==
    LET data == pass.rows
        entryOf(t) == CHOOSE i \in 1..Len(data) : data[i].tab = t
        written == { data[i].tab : i \in 1..Len(data) }
    IN  [ Log(s, IF pass.by = "queued" THEN "write" ELSE "writeReset") EXCEPT
            !.headers = [ t \in Tabs |->
                            IF t \in written
                            THEN IF data[entryOf(t)].isPinned
                                 THEN unstyleHeader(s.headers[t])
                                 ELSE writeHeader(s.headers[t],
                                                  data[entryOf(t)].cachedWidth,
                                                  s.settings)
                            ELSE s.headers[t] ],
            !.tabWidthCache = newCache(data, Len(data)) ]

\* calls counts the calls that were not dropped since the queued callback last
\* ran, up to MaxCalls.
queueHeaderAdjustment_NoCoalesce(s) ==
    LET c == [s EXCEPT !.calls = Min(@ + 1, MaxCalls)]
    IN  IF s.closeInProgress THEN s
        ELSE [c EXCEPT !.isAdjustmentQueued = TRUE,
                       !.rafQueue = Append(@, RafCb("queued", << >>))]

queueHeaderAdjustment(s) ==
    LET c == [s EXCEPT !.calls = Min(@ + 1, MaxCalls)]
    IN  IF s.closeInProgress THEN s
        ELSE IF ~s.isAdjustmentQueued
             THEN [c EXCEPT !.isAdjustmentQueued = TRUE,
                            !.rafQueue = Append(@, RafCb("queued", << >>))]
             ELSE c

\* the requestAnimationFrame callback of queueHeaderAdjustment
queuedCallback(s) ==
    IF s.closeInProgress
    THEN [ Log(s, "skip") EXCEPT !.isAdjustmentQueued = FALSE, !.calls = 0 ]
    ELSE [ adjustAllHeaders(Log(s, "adjustAllHeaders"), "queued") EXCEPT
             !.isAdjustmentQueued = FALSE, !.calls = 0 ]

\* preCalculateAllTabWidths
RECURSIVE preCalc(_, _, _)
preCalc(s, hs, n) ==
    IF n = 0 THEN s.tabWidthCache
    ELSE LET c == preCalc(s, hs, n - 1)
             h == s.headers[hs[n]]
             k == getHeaderKey(h)
         IN  IF k \in DOMAIN c THEN c
             ELSE [ x \in DOMAIN c \cup {k} |->
                      IF x = k THEN headerWidth(h, s.settings) ELSE c[x] ]

preCalculateAllTabWidths(s) ==
    LET hs == InOrder(getAllHeaders(s))
    IN  [s EXCEPT !.tabWidthCache = preCalc(s, hs, Len(hs))]

\* the requestAnimationFrame callback of initialize.  setupMutationObserver
\* connects the observer; the host always has a tab-header container in the
\* main area.
initCallback(s) ==
    CHOOSE r \in { queueHeaderAdjustment(observing) :
                      observing \in {[ preCalculateAllTabWidths(s) EXCEPT
                                         !.observer = TRUE ]} } : TRUE

\* resetTabs, up to its first setTimeout
resetTabs(s) ==
    LET hs == getAllHeaders(s)
    IN  [ s EXCEPT
            !.isResetting = TRUE,
            !.headers = [ t \in Tabs |->
                            IF t \in hs
                            THEN [ s.headers[t] EXCEPT
                                     !.classes = (@ \ {"autofit-max-width", "autofit-tab"})
                                                 \cup {"autofit-cleanup"},
                                     !.width = NoWidth ]
                            ELSE s.headers[t] ],
            !.tabWidthCache = << >>,
            !.timers = Append(@, Timer("reset1", 0, hs)) ]

\* the 100 ms callback of resetTabs
resetStep1(s, hs) ==
    [ s EXCEPT
        !.headers = [ t \in Tabs |->
                        IF t \in hs /\ InDocument(s.headers[t])
                        THEN [ s.headers[t] EXCEPT !.classes = @ \ {"autofit-cleanup"} ]
                        ELSE s.headers[t] ],
        !.timers = Append(@, Timer("reset2", 0, hs)) ]

\* the 50 ms callback of resetTabs
resetStep2(s, hs) ==
    LET a == [ s EXCEPT
                 !.headers = [ t \in Tabs |->
                                 IF t \in hs /\ InDocument(s.headers[t])
                                 THEN [ s.headers[t] EXCEPT
                                          !.classes = @ \cup {"autofit-tab"} ]
                                 ELSE s.headers[t] ] ]
    IN  [ adjustAllHeaders(a, "reset") EXCEPT !.isResetting = FALSE ]

\* ------------------------------------------------------ mutation observer
\* A MutationRecord as far as the observer callback reads it: its type, whether
\* removedNodes holds a tab header, and where its target lies ("inHeader": inside
\* a main-area tab header; "container": in the main area, outside every header;
\* "body": document.body; "outside": elsewhere outside the main area; "text":
\* not an Element, the Text node of a characterData record).
Mutation(type, removedHeader, target) ==
    [type |-> type, removedHeader |-> removedHeader, target |-> target]

RECURSIVE observerLoop(_, _, _, _)
observerLoop(s, mutations, i, tabWasRemoved) ==
    IF i > Len(mutations) THEN s
    ELSE LET m == mutations[i]
             removed == tabWasRemoved \/ (m.type = "childList" /\ m.removedHeader)
         IN  IF m.target \in {"body", "outside", "text"}
             THEN observerLoop(s, mutations, i + 1, removed)   \* continue
             ELSE IF m.target = "inHeader"
                  THEN (IF ~removed THEN queueHeaderAdjustment(s) ELSE s)
                  ELSE IF m.target = "body" /\ m.type = "attributes"
                       THEN queueHeaderAdjustment([s EXCEPT !.tabWidthCache = << >>])
                       ELSE observerLoop(s, mutations, i + 1, removed)

\* the MutationObserver callback of setupMutationObserver, run on a batch
observerCallback(s, mutations) ==
    IF s.observer THEN observerLoop(s, mutations, 1, FALSE) ELSE s

\* ------------------------------------------------------------ close sequence
\* startClosingAnimation
startClosingAnimation(s, t) ==
    IF s.isResetting THEN s
    ELSE [ s EXCEPT !.headers[t].classes = @ \cup {"autofit-closing"},
                    !.headers[t].width = 0 ]

initiateClose_NoGuard(s, t) ==
    [ startClosingAnimation([s EXCEPT !.closeInProgress = TRUE], t) EXCEPT
        !.timers = Append(@, Timer("closeLeaf", t, {})) ]

\* initiateClose
initiateClose(s, t) ==
    IF s.closeInProgress THEN s
    ELSE [ startClosingAnimation([s EXCEPT !.closeInProgress = TRUE], t) EXCEPT
             !.timers = Append(@, Timer("closeLeaf", t, {})) ]

\* leaf.detach() as the host carries it out: the header element leaves the
\* document, another open tab (if any) becomes the active one, and the observer
\* is handed the removal record.
hostDetach(s, t, next) ==
    LET gone == [ s EXCEPT
                    !.headers = [ x \in Tabs |->
                        IF x = t
                        THEN [ s.headers[x] EXCEPT !.dom = "gone", !.isActive = FALSE,
                                                   !.classes = {}, !.width = NoWidth ]
                        ELSE IF s.headers[t].isActive /\ x = next
                             THEN [ s.headers[x] EXCEPT !.isActive = TRUE ]
                             ELSE s.headers[x] ] ]
    IN  observerCallback(gone, << Mutation("childList", TRUE, "container") >>)

\* closeLeafByTabHeader: the leaf whose tabHeaderEl is the header, else the
\* active leaf when the header still carries is-active
closeLeafByTabHeader(s, t, next) ==
    IF s.headers[t].dom = "dom" THEN hostDetach(s, t, next)
    ELSE IF s.headers[t].isActive
              /\ \E a \in getAllHeaders(s) : s.headers[a].isActive
         THEN hostDetach(s, CHOOSE a \in getAllHeaders(s) : s.headers[a].isActive, next)
         ELSE s

closeLeafTimer_NoGrace(s, t, next) == closeLeafByTabHeader(s, t, next)

\* the transitionDuration callback of initiateClose
closeLeafTimer(s, t, next) ==
    [ closeLeafByTabHeader(s, t, next) EXCEPT
        !.timers = Append(@, Timer("closeDone", t, {})) ]

\* the 300 ms callback of initiateClose
closeDoneTimer(s) == [s EXCEPT !.closeInProgress = FALSE]

\* ------------------------------------------------------------- host events
\* debounceLayoutChange (clearTimeout of the pending timer, then setTimeout)
debounceLayoutChange_NoClear(s) ==
    [ s EXCEPT !.timers = Append(@, Timer("debounce", 0, {})),
               !.debounceTimeout = TRUE ]

debounceLayoutChange(s) ==
    LET cleared == IF s.debounceTimeout
                   THEN SelectSeq(s.timers, LAMBDA x : x.kind # "debounce")
                   ELSE s.timers
    IN  [ s EXCEPT !.timers = Append(cleared, Timer("debounce", 0, {})),
                   !.debounceTimeout = TRUE ]

debounceTimer_NoQueue(s) == [ s EXCEPT !.debounceTimeout = FALSE ]

\* the 100 ms callback of debounceLayoutChange
debounceTimer(s) == [ queueHeaderAdjustment(s) EXCEPT !.debounceTimeout = FALSE ]

RECURSIVE addFileOpenTimers(_, _, _)
addFileOpenTimers(q, hs, n) ==
    IF n = 0 THEN q
    ELSE Append(addFileOpenTimers(q, hs, n - 1), Timer("fileOpen", hs[n], {}))

\* handleFileOpen (stabilizeIcon touches only the icon element)
handleFileOpen(s) ==
    IF s.closeInProgress THEN s
    ELSE LET act == InOrder({t \in getAllHeaders(s) : s.headers[t].isActive})
         IN  [ s EXCEPT !.timers = addFileOpenTimers(@, act, Len(act)) ]

\* the 50 ms callback of handleFileOpen
fileOpenTimer(s, t) ==
    IF getHeaderKey(s.headers[t]) \notin DOMAIN s.tabWidthCache
    THEN queueHeaderAdjustment(s)
    ELSE s

\* saveSettings after `await saveData`
saveSettingsResume(s, previousMaxWidth) ==
    IF previousMaxWidth > 0 /\ s.settings.maxWidth = 0
    THEN resetTabs(s)
    ELSE queueHeaderAdjustment(s)

\* ------------------------------------------------------------ initial state
NewHeader == [dom |-> "new", title |-> NoTitleEl, isActive |-> FALSE,
              classes |-> {}, width |-> NoWidth, pinned |-> FALSE]
OpenHeader(title, active) == [dom |-> "dom", title |-> title, isActive |-> active,
                              classes |-> {}, width |-> NoWidth, pinned |-> FALSE]

SettingsWith(mw) == [DEFAULT_SETTINGS EXCEPT !.maxWidth = mw]
NoProbe == [hasTitle |-> FALSE, offsetWidth |-> 0]

\* onload has run: settings are loaded, the handlers are registered and
\* initialize has requested its animation frame.  The host shows all tabs but
\* the last, which it opens later; one of the shown tabs is active.
InitWith(eventsSoFar) ==
    /\ settings \in {SettingsWith(0), SettingsWith(MaxWidthOn)}
    /\ tabWidthCache = << >>
    /\ isAdjustmentQueued = FALSE
    /\ isResetting = FALSE
    /\ closeInProgress = FALSE
    /\ debounceTimeout = FALSE
    /\ observer = FALSE
    /\ \E a \in Tabs, ti \in [Tabs -> Titles] :
          /\ a < MaxTabs \/ MaxTabs = 1
          /\ headers = [ t \in Tabs |->
                           IF t < MaxTabs THEN OpenHeader(ti[t], t = a) ELSE NewHeader ]
          /\ ti[MaxTabs] = 1
    /\ rafQueue = << RafCb("init", << >>) >>
    /\ timers = << >>
    /\ pendingSaves = << >>
    /\ frameLog = << >>
    /\ calls = 0
    /\ events = eventsSoFar
    /\ probe = NoProbe
    /\ result = NoWidth

Init == InitWith(0)

\* ---------------------------------------------------------------- actions
runCallback(s, cb) ==
    CASE cb.kind = "init" -> initCallback(s)
      [] cb.kind = "queued" -> queuedCallback(s)
      [] cb.kind = "write" -> writePhase(s, cb.data)

RECURSIVE runBatch(_, _, _)
runBatch(s, batch, n) ==
    IF n = 0 THEN s
    ELSE CHOOSE r \in { runCallback(before, batch[n]) :
                            before \in {runBatch(s, batch, n - 1)} } : TRUE

\* One animation frame: the callbacks requested before it run in order;
\* what they request runs in the next frame.
Frame ==
    /\ rafQueue # << >>
    /\ Set(runBatch([Cur EXCEPT !.rafQueue = << >>, !.frameLog = << >>],
                    rafQueue, Len(rafQueue)))
    /\ UNCHANGED events

\* Timers of equal delay fire in creation order.
Delay(kind) ==
    CASE kind \in {"closeLeaf", "iconTransition", "cleanupDone"} -> "transitionDuration"
      [] kind = "closeDone" -> "300"
      [] kind \in {"reset1", "debounce"} -> "100"
      [] kind \in {"reset2", "fileOpen"} -> "50"
      [] kind \in {"iconDone", "visibility"} -> "transitionDuration + 50"

Due(i) == \A j \in 1..(i - 1) : Delay(timers[j].kind) # Delay(timers[i].kind)

Fired(i) == [Cur EXCEPT !.timers = SeqRemove(@, i)]

CloseLeafFires ==
    \E i \in 1..Len(timers) :
        /\ timers[i].kind = "closeLeaf" /\ Due(i)
        /\ LET t == timers[i].tab
               others == getAllHeaders(Cur) \ {t}
           IN  \E next \in (IF others = {} THEN {0} ELSE others) :
                   Step(closeLeafTimer(Fired(i), t, next))

CloseDoneFires ==
    \E i \in 1..Len(timers) :
        /\ timers[i].kind = "closeDone" /\ Due(i)
        /\ Step(closeDoneTimer(Fired(i)))

Reset1Fires ==
    \E i \in 1..Len(timers) :
        /\ timers[i].kind = "reset1" /\ Due(i)
        /\ Step(resetStep1(Fired(i), timers[i].hdrs))

Reset2Fires ==
    \E i \in 1..Len(timers) :
        /\ timers[i].kind = "reset2" /\ Due(i)
        /\ Step(resetStep2(Fired(i), timers[i].hdrs))

DebounceFires ==
    \E i \in 1..Len(timers) :
        /\ timers[i].kind = "debounce" /\ Due(i)
        /\ Step(debounceTimer(Fired(i)))

FileOpenFires ==
    \E i \in 1..Len(timers) :
        /\ timers[i].kind = "fileOpen" /\ Due(i)
        /\ Step(fileOpenTimer(Fired(i), timers[i].tab))

\* room for one more timer, counting the one a suspended saveSettings sets
\* when it resumes into resetTabs (it can only if it read a maxWidth > 0)
Room ==
    Len(timers) + Cardinality({i \in 1..Len(pendingSaves) : pendingSaves[i] > 0})
        < MaxTimers

\* handleCloseClick / handleMiddleClick on a main-area tab header
CloseClick ==
    \E t \in getAllHeaders(Cur) :
        /\ Room
        /\ Event(initiateClose(Cur, t))

\* handleKeyDown: Ctrl/Cmd+W closes the active main-area tab
CtrlW ==
    \E t \in getAllHeaders(Cur) :
        /\ headers[t].isActive
        /\ Room
        /\ Event(initiateClose(Cur, t))

\* workspace 'layout-change'
LayoutChange ==
    /\ Room \/ debounceTimeout
    /\ Event(debounceLayoutChange(Cur))

\* workspace 'file-open'
FileOpen ==
    /\ Room
    /\ Event(handleFileOpen(Cur))

\* vault 'rename'
Rename == \E s \in {queueHeaderAdjustment(Cur)} : Event(s)

\* the host sets the text of a tab's title element (textContent): a childList
\* record whose target is the title element
TitleSetText ==
    \E t \in getAllHeaders(Cur), ti \in Titles :
        /\ ti # headers[t].title
        /\ Event(observerCallback([Cur EXCEPT !.headers[t].title = ti],
                                << Mutation("childList", FALSE, "inHeader") >>))

\* the host edits the data of the title's Text node: a characterData record
\* whose target is the Text node
TitleDataChange ==
    \E t \in getAllHeaders(Cur), ti \in Titles :
        /\ ti # headers[t].title
        /\ Event(observerCallback([Cur EXCEPT !.headers[t].title = ti],
                                << Mutation("characterData", FALSE, "text") >>))

\* the host opens a tab: its header is inserted into the container and becomes
\* the active one, and the workspace fires 'layout-change'
HostOpenTab ==
    \E t \in Tabs, ti \in Titles :
        /\ headers[t].dom = "new"
        /\ \A u \in Tabs : u < t => headers[u].dom # "new"
        /\ Room \/ debounceTimeout
        /\ LET opened == [ Cur EXCEPT !.headers =
                             [ x \in Tabs |->
                                 IF x = t THEN OpenHeader(ti, TRUE)
                                 ELSE [ headers[x] EXCEPT !.isActive = FALSE ] ] ]
           IN  Event(debounceLayoutChange(
                     observerCallback(opened,
                         << Mutation("childList", FALSE, "container") >>)))

\* the host moves the is-active class to header t
Activated(s, t) ==
    [ s EXCEPT !.headers =
        [ x \in Tabs |-> [ s.headers[x] EXCEPT !.isActive = (x = t) ] ] ]

\* the host activates another tab (class changes are not observed)
HostActivate ==
    \E t \in getAllHeaders(Cur) :
        /\ ~headers[t].isActive
        /\ Event(Activated(Cur, t))

\* a numeric field of the settings tab accepts a value: the onChange handler
\* assigns it, then saveSettings runs up to `await saveData`
SettingsChange ==
    \E mw \in {0, MaxWidthOn} :
        /\ Len(pendingSaves) < MaxSaves
        /\ mw > 0 => Room
        /\ Event([ Cur EXCEPT !.settings.maxWidth = mw,
                            !.pendingSaves = Append(@, mw) ])

\* saveData resolves: the oldest suspended saveSettings resumes
SaveDone ==
    /\ pendingSaves # << >>
    /\ Step(saveSettingsResume([Cur EXCEPT !.pendingSaves = Tail(@)],
                              Head(pendingSaves)))

Next ==
    \/ Frame
    \/ CloseLeafFires
    \/ CloseDoneFires
    \/ Reset1Fires
    \/ Reset2Fires
    \/ DebounceFires
    \/ FileOpenFires
    \/ CloseClick
    \/ CtrlW
    \/ LayoutChange
    \/ FileOpen
    \/ Rename
    \/ TitleSetText
    \/ TitleDataChange
    \/ HostOpenTab
    \/ HostActivate
    \/ SettingsChange
    \/ SaveDone

Spec == Init /\ [][Next]_vars

\* The browser runs every requested animation frame and every timer, and the
\* host resolves every saveData promise.  The behaviours are those of Spec
\* with at most LiveEvents host and user events.
FairSpec ==
    /\ InitWith(MaxEvents - LiveEvents) /\ [][Next]_vars
    /\ WF_vars(Frame)
    /\ WF_vars(CloseLeafFires)
    /\ WF_vars(CloseDoneFires)
    /\ WF_vars(Reset1Fires)
    /\ WF_vars(Reset2Fires)
    /\ WF_vars(DebounceFires)
    /\ WF_vars(FileOpenFires)
    /\ WF_vars(SaveDone)

\* ======================================================= scheduling of passes
Did(log, what) == \E k \in 1..Len(log) : log[k] = what
Precedes(log, a, b) ==
    \E i, j \in 1..Len(log) : i < j /\ log[i] = a /\ log[j] = b
\* the queued callback of queueHeaderAdjustment is pending
Queued == isAdjustmentQueued /\ CountKind(rafQueue, "queued") = 1
WritesBy(caller) ==
    Cardinality({i \in 1..Len(rafQueue) :
                    rafQueue[i].kind = "write" /\ rafQueue[i].data.by = caller})

C4_OneCallback ==
    /\ CountKind(rafQueue, "queued") <= 1
    /\ isAdjustmentQueued <=> CountKind(rafQueue, "queued") = 1
    /\ calls >= 1 <=> isAdjustmentQueued

\* C4 (as stated): at most one queued callback is pending, isAdjustmentQueued
\* is true exactly while it is pending, and the calls made between two frames
\* result in exactly one adjustAllHeaders invocation on the next frame.
C4_Original ==
    /\ []C4_OneCallback
    /\ [][(Frame /\ calls >= 1) => Count(frameLog', "adjustAllHeaders") = 1]_vars

\* C4 (amended): at most one queued callback is pending and isAdjustmentQueued
\* is true exactly while it is pending; the calls accepted between two frames
\* (those made while no close is in progress) result in at most one
\* adjustAllHeaders invocation on the next frame: exactly one when no close is
\* in progress as the frame runs, none when a close has begun since.
C4_Coalescing ==
    /\ []C4_OneCallback
    /\ [][Frame =>
            /\ Count(frameLog', "adjustAllHeaders") <= 1
            /\ (calls >= 1 /\ ~closeInProgress)
                   => Count(frameLog', "adjustAllHeaders") = 1
            /\ (calls = 0 \/ closeInProgress)
                   => Count(frameLog', "adjustAllHeaders") = 0
            /\ (calls >= 1 /\ closeInProgress) => Did(frameLog', "skip")]_vars

\* several calls stand behind the one pending callback
C4_Witness ==
    /\ calls = MaxCalls /\ MaxCalls >= 2
    /\ Queued
    /\ ~closeInProgress

OverlappingResetPass == Precedes(frameLog, "read", "writeReset")

\* ============================================================ close sequence
CloseTimers == CountKind(timers, "closeLeaf") + CountKind(timers, "closeDone")
ClosePending(kind, t) ==
    \E i \in 1..Len(timers) : timers[i].kind = kind /\ timers[i].tab = t
\* the tab of the pending close-leaf timer
ClosingTab ==
    timers[CHOOSE i \in 1..Len(timers) : timers[i].kind = "closeLeaf"].tab

\* C6: a close once initiated always completes: its timers are never
\* cancelled, close-leaf is invoked when the first fires (the tab leaves the
\* document and the second timer is set), and closeInProgress is false again
\* when the second fires.
C6_Completes ==
    /\ [](CloseTimers <= 1 /\ (closeInProgress <=> CloseTimers = 1))
    /\ [](\A t \in Tabs : ClosePending("closeDone", t) => headers[t].dom = "gone")
    /\ [][\A t \in Tabs :
            /\ ClosePending("closeLeaf", t)
                 => \/ ClosePending("closeLeaf", t)'
                    \/ CloseLeafFires /\ ClosePending("closeDone", t)'
            /\ ClosePending("closeDone", t)
                 => \/ ClosePending("closeDone", t)'
                    \/ CloseDoneFires /\ ~closeInProgress']_vars
    /\ \A t \in Tabs : ClosePending("closeLeaf", t) ~> headers[t].dom = "gone"
    /\ closeInProgress ~> ~closeInProgress

\* a close has run to its end: the tab is gone and the flag is down again
C6_Witness ==
    /\ \E t \in Tabs : headers[t].dom = "gone"
    /\ ~closeInProgress
    /\ CloseTimers = 0

\* C7 (as stated): when close-leaf is invoked the closing tab's --header-width
\* is 0px.
C7_Original == [][CloseLeafFires => headers[ClosingTab].width = 0]_vars

\* a close-leaf timer is about to fire on a tab whose width is not 0px
C7_Witness ==
    /\ CountKind(timers, "closeLeaf") = 1
    /\ headers[ClosingTab].dom = "dom"
    /\ headers[ClosingTab].width # 0

\* C8 (as stated): while closeInProgress is set no pass writes --header-width
\* or replaces the width cache.
C8_Original ==
    [][(Frame /\ closeInProgress) =>
          (~Did(frameLog', "write") /\ ~Did(frameLog', "writeReset"))]_vars

\* a write phase has just run during a close
C8_Witness ==
    /\ closeInProgress
    /\ Did(frameLog, "write")

\* nothing is left to run: no frame is requested, no timer is set, no save is
\* suspended
Quiescent ==
    /\ rafQueue = << >> /\ timers = << >> /\ pendingSaves = << >>
    /\ ~closeInProgress /\ ~isResetting /\ observer

\* C9 (as stated): every main-area tab eventually gets --header-width: once
\* nothing is left to run, every header in the document has one.
C9_Original ==
    Quiescent => \A t \in getAllHeaders(Cur) : headers[t].width # NoWidth

\* a tab opened after load sits without a width and nothing is left to run
C9_Witness ==
    /\ Quiescent
    /\ headers[MaxTabs].dom = "dom"
    /\ headers[MaxTabs].width = NoWidth

\* ================================================================== triggers
ActiveTabs == {t \in getAllHeaders(Cur) : headers[t].isActive}
FileOpenKeysUncached ==
    \A i \in 1..Len(timers) :
        timers[i].kind = "fileOpen"
            => getHeaderKey(headers[timers[i].tab]) \notin DOMAIN tabWidthCache

C11_Original ==
    (Quiescent /\ settings.maxWidth > 0) =>
        \A t \in getAllHeaders(Cur) :
            headers[t].width # NoWidth => headers[t].width <= settings.maxWidth

\* an inactive tab keeps a width above the maximum after everything has run
C11_Witness ==
    /\ Quiescent /\ settings.maxWidth > 0
    /\ \E t \in getAllHeaders(Cur) :
          /\ ~headers[t].isActive
          /\ headers[t].width > settings.maxWidth
          /\ "autofit-max-width" \in headers[t].classes

\* one whole pass with nothing happening between its read phase and its
\* write phase
fullPass(s) == writePhase(s, [by |-> "queued", rows |-> headerData(s)])

\* C12 (as stated): two consecutive passes between which no title and no
\* setting changes (the active tab may change) give every tab the same width
\* and leave the same cache entry under its title.
C12_Original ==
    ~isResetting =>
        \A a \in getAllHeaders(Cur) :
            LET p1 == fullPass(Cur)
                p2 == fullPass(Activated(p1, a))
            IN  \A t \in getAllHeaders(Cur) :
                    /\ p2.headers[t].width = p1.headers[t].width
                    /\ p2.tabWidthCache[getHeaderKey(headers[t])]
                         = p1.tabWidthCache[getHeaderKey(headers[t])]

\* a pass has just written, and the width it gave an inactive tab is not the
\* width the next pass gives the tab once it is the active one
C12_Witness ==
    /\ Did(frameLog, "write") /\ ~isResetting
    /\ \E t \in getAllHeaders(Cur) :
          /\ ~headers[t].isActive
          /\ getHeaderKey(headers[t]) \in DOMAIN tabWidthCache
          /\ headers[t].width = fullPass(Cur).headers[t].width
          /\ headers[t].width # fullPass(Activated(Cur, t)).headers[t].width

\* C14 (as stated): a tab whose --header-width differs from the width formula
\* evaluated on its current title and the current settings has the formula's
\* value after the next pass.
C14_Original ==
    ~isResetting =>
        \A t \in getAllHeaders(Cur) :
            headers[t].width # headerWidth(headers[t], settings) =>
                fullPass(Cur).headers[t].width = headerWidth(headers[t], settings)

\* a pass has just written; an inactive tab is off the formula's value, and
\* another pass would leave it so
C14_Witness ==
    /\ Did(frameLog, "write") /\ ~isResetting
    /\ \E t \in getAllHeaders(Cur) :
          /\ ~headers[t].isActive
          /\ headers[t].width # NoWidth
          /\ headers[t].width # headerWidth(headers[t], settings)
          /\ fullPass(Cur).headers[t].width = headers[t].width

\* C16 (as stated): when saveSettings resumes after saveData it schedules a
\* recalculation: a queued pass is pending afterwards, or a reset is running.
C16_Original ==
    [][ SaveDone => (Queued' \/ isResetting') ]_vars

\* the only events were a close gesture and a change of maxWidth from 0; the
\* save has resumed inside the close window, nothing is scheduled, and the
\* cache still holds a width computed without the maximum
C16_Witness ==
    /\ closeInProgress /\ events = 2
    /\ pendingSaves = << >> /\ rafQueue = << >> /\ ~isAdjustmentQueued
    /\ settings.maxWidth = MaxWidthOn
    /\ \E k \in DOMAIN tabWidthCache : tabWidthCache[k] > settings.maxWidth

\* C18 (as stated): while a reset is in progress no pass writes
\* --header-width, the autofit classes or the width cache, a pass started
\* before resetTabs included: no frame that begins with isResetting set runs a
\* write phase.
C18_Original ==
    [][ (Frame /\ isResetting) =>
            ~(Did(frameLog', "write") \/ Did(frameLog', "writeReset")) ]_vars

\* the reset is still in progress and a write phase has just given a tab its
\* width and class back and refilled the cache
C18_Witness ==
    /\ isResetting
    /\ Did(frameLog, "write")
    /\ tabWidthCache # << >>
    /\ \E t \in getAllHeaders(Cur) :
          /\ headers[t].width # NoWidth
          /\ {"autofit-tab", "autofit-cleanup"} \subseteq headers[t].classes

\* ===================================================================== reset
\* C24 (as stated): when the last step of a resetTabs sequence has run, no
\* header in the document carries autofit-cleanup, every one carries
\* autofit-tab and a --header-width assigned by the final adjustAllHeaders
\* call, its title is in the cache, and isResetting is false.
C24_Original ==
    [][ Reset2Fires =>
            /\ ~isResetting'
            /\ \A t \in Tabs :
                  headers'[t].dom = "dom" =>
                      /\ "autofit-cleanup" \notin headers'[t].classes
                      /\ "autofit-tab" \in headers'[t].classes
                      /\ headers'[t].width # NoWidth
                      /\ getHeaderKey(headers'[t]) \in DOMAIN tabWidthCache' ]_vars

\* a reset sequence has finished and nothing is left to run: isResetting is
\* false, the headers carry autofit-tab again, none has a width and the cache
\* is empty
C24_Witness ==
    /\ Quiescent
    /\ tabWidthCache = << >>
    /\ getAllHeaders(Cur) # {}
    /\ \A t \in getAllHeaders(Cur) :
          /\ headers[t].classes = {"autofit-tab"}
          /\ headers[t].width = NoWidth

\* ====================================================== max-width specification
\* Passes under a 'Max width' that the widths of the titles reach: the setting
\* starts at 0 and the settings tab switches it between 0 and NarrowMax.
NarrowMax == Px(70)

InitMaxWidth ==
    /\ settings = SettingsWith(0)
    /\ tabWidthCache = << >>
    /\ isAdjustmentQueued = FALSE
    /\ isResetting = FALSE
    /\ closeInProgress = FALSE
    /\ debounceTimeout = FALSE
    /\ observer = FALSE
    /\ \E a \in Tabs, ti \in [Tabs -> Titles] :
          headers = [ t \in Tabs |-> OpenHeader(ti[t], t = a) ]
    /\ rafQueue = << RafCb("init", << >>) >>
    /\ timers = << >>
    /\ pendingSaves = << >>
    /\ frameLog = << >>
    /\ calls = 0
    /\ events = 0
    /\ probe = NoProbe
    /\ result = NoWidth

\* the 'Max width' field accepts 0 or NarrowMax
MaxWidthChange ==
    \E mw \in {0, NarrowMax} :
        /\ Len(pendingSaves) < MaxSaves
        /\ mw > 0 => Room
        /\ Event([ Cur EXCEPT !.settings.maxWidth = mw,
                            !.pendingSaves = Append(@, mw) ])

NextMaxWidth ==
    \/ Frame
    \/ MaxWidthChange
    \/ SaveDone
    \/ HostActivate
    \/ Reset1Fires
    \/ Reset2Fires

SpecMaxWidth == InitMaxWidth /\ [][NextMaxWidth]_vars

\* C26: when a frame has run a write phase, every header of its rows that is
\* in the document carries autofit-max-width exactly if maxWidth > 0 and the
\* row's width is >= maxWidth; its --header-width is then
\* min(width, maxWidth + 20px) and otherwise the row's width; the cache holds,
\* for every row's title, the unadjusted width of the last row with that title.
C26_WritePhase ==
    [][ (Frame /\ (Did(frameLog', "write") \/ Did(frameLog', "writeReset"))) =>
          LET last == CHOOSE i \in 1..Len(rafQueue) :
                         /\ rafQueue[i].kind = "write"
                         /\ \A j \in (i + 1)..Len(rafQueue) : rafQueue[j].kind # "write"
              rows == rafQueue[last].data.rows
          IN  \A i \in 1..Len(rows) :
                LET d == rows[i]
                    h == headers'[d.tab]
                    atMax == settings.maxWidth > 0 /\ d.cachedWidth >= settings.maxWidth
                    lastOfKey == CHOOSE k \in 1..Len(rows) :
                                    /\ rows[k].headerKey = d.headerKey
                                    /\ \A j \in (k + 1)..Len(rows) :
                                          rows[j].headerKey # d.headerKey
                IN  /\ d.headerKey \in DOMAIN tabWidthCache'
                    /\ tabWidthCache'[d.headerKey] = rows[lastOfKey].cachedWidth
                    /\ h.dom = "dom" =>
                          /\ "autofit-tab" \in h.classes
                          /\ ("autofit-max-width" \in h.classes) <=> atMax
                          /\ h.width = IF atMax
                                       THEN Min(d.cachedWidth, settings.maxWidth + Px(20))
                                       ELSE d.cachedWidth ]_vars

\* a write phase has rendered a header at maxWidth + 20px while the cache
\* holds the larger width assigned to it
C26_Witness ==
    /\ Did(frameLog, "write")
    /\ settings.maxWidth > 0
    /\ \E t \in getAllHeaders(Cur) :
          /\ "autofit-max-width" \in headers[t].classes
          /\ headers[t].width = settings.maxWidth + Px(20)
          /\ tabWidthCache[getHeaderKey(headers[t])] > headers[t].width

\* ========================================================= pinned specification
\* Passes and resets with 'Ignore pinned tabs' switched on.  Every tab is open
\* and any of them may be pinned; the user pins and unpins tabs and changes
\* maxWidth.

InitPinned ==
    /\ settings = [SettingsWith(MaxWidthOn) EXCEPT !.ignorePinnedTabs = TRUE]
    /\ tabWidthCache = << >>
    /\ isAdjustmentQueued = FALSE
    /\ isResetting = FALSE
    /\ closeInProgress = FALSE
    /\ debounceTimeout = FALSE
    /\ observer = FALSE
    /\ \E a \in Tabs, ti \in [Tabs -> Titles], pin \in [Tabs -> BOOLEAN] :
          headers = [ t \in Tabs |->
                        [OpenHeader(ti[t], t = a) EXCEPT !.pinned = pin[t]] ]
    /\ rafQueue = << RafCb("init", << >>) >>
    /\ timers = << >>
    /\ pendingSaves = << >>
    /\ frameLog = << >>
    /\ calls = 0
    /\ events = 0
    /\ probe = NoProbe
    /\ result = NoWidth

\* the user pins or unpins a tab: the host adds or removes the pin's status
\* icon inside the header, a childList record with a target inside the header
HostPin ==
    \E t \in getAllHeaders(Cur) :
        Event(observerCallback([Cur EXCEPT !.headers[t].pinned = ~@],
                               << Mutation("childList", FALSE, "inHeader") >>))

NextPinned ==
    \/ Frame
    \/ HostPin
    \/ SettingsChange
    \/ SaveDone
    \/ Reset1Fires
    \/ Reset2Fires

SpecPinned == InitPinned /\ [][NextPinned]_vars

\* the headers 'Ignore pinned tabs' exempts
PinnedHeaders ==
    {t \in getAllHeaders(Cur) : settings.ignorePinnedTabs /\ headers[t].pinned}

\* C22 (as stated): with ignorePinnedTabs on, once the passes and resets under
\* way have finished, a pinned header has neither autofit-tab nor
\* autofit-max-width nor --header-width, and the cache holds no width for its
\* title unless a tab that is not pinned has the same title.
C22_Original ==
    Quiescent =>
        \A t \in PinnedHeaders :
            /\ headers[t].classes \cap {"autofit-tab", "autofit-max-width"} = {}
            /\ headers[t].width = NoWidth
            /\ getHeaderKey(headers[t]) \in DOMAIN tabWidthCache =>
                  \E u \in getAllHeaders(Cur) \ PinnedHeaders :
                      getHeaderKey(headers[u]) = getHeaderKey(headers[t])

\* a reset has finished and nothing is left to run: a pinned header carries
\* autofit-tab
C22_Witness ==
    /\ Quiescent
    /\ tabWidthCache = << >>
    /\ \E t \in PinnedHeaders :
          /\ "autofit-tab" \in headers[t].classes
          /\ headers[t].width = NoWidth

\* ===================================================== calculator specification
\* The settings the numeric fields accept (any non-negative number, whole or
\* fractional) and what the probe element can report (offsetWidth is a whole
\* number of pixels).
CalcSettings ==
    { [ DEFAULT_SETTINGS EXCEPT !.minWidth = mn, !.leftPadding = lp,
                                !.iconWidth = iw, !.hideTabIcons = hide,
                                !.maxWidth = mx ] :
        mn \in {0, Px(40), Px(150)},
        lp \in {Px(12), Px(12) + 1},
        iw \in {0, Px(20)},
        hide \in BOOLEAN,
        mx \in {0, Px(30), Px(100), Px(100) + 1, Px(400)} }

CalcProbes ==
    [ hasTitle : BOOLEAN, offsetWidth : {0, Px(30), Px(35), Px(200)} ]

InitCalc ==
    /\ settings \in CalcSettings
    /\ probe \in CalcProbes
    /\ result = NoWidth
    /\ tabWidthCache = << >>
    /\ isAdjustmentQueued = FALSE
    /\ isResetting = FALSE
    /\ closeInProgress = FALSE
    /\ debounceTimeout = FALSE
    /\ observer = FALSE
    /\ headers = [ t \in Tabs |-> NewHeader ]
    /\ rafQueue = << >>
    /\ timers = << >>
    /\ pendingSaves = << >>
    /\ frameLog = << >>
    /\ calls = 0
    /\ events = 0

\* calculateHeaderWidth is applied to the probed header
Calculate ==
    /\ result = NoWidth
    /\ result' = calculateHeaderWidth(probe.hasTitle, probe.offsetWidth, settings)
    /\ UNCHANGED << settings, tabWidthCache, isAdjustmentQueued, isResetting,
                    closeInProgress, debounceTimeout, observer, headers, rafQueue,
                    timers, pendingSaves, frameLog, calls, events, probe >>

NextCalc == Calculate

SpecCalc == InitCalc /\ [][NextCalc]_vars

Calculated == result # NoWidth

\* C1 (as stated): for a header with a title element the computed width is at
\* least minWidth, and at most maxWidth whenever maxWidth > 0.
C1_Original ==
    (Calculated /\ probe.hasTitle) =>
        /\ result >= settings.minWidth
        /\ (settings.maxWidth > 0 => result <= settings.maxWidth)

\* C1 (amended): for a header with a title element the computed width is at
\* most maxWidth whenever maxWidth > 0, and at least minWidth whenever
\* maxWidth is 0 or maxWidth >= minWidth; when 0 < maxWidth < minWidth the
\* clamp wins and the width is maxWidth.
C1_WidthBounds ==
    (Calculated /\ probe.hasTitle) =>
        /\ (settings.maxWidth > 0 => result <= settings.maxWidth)
        /\ ((settings.maxWidth = 0 \/ settings.maxWidth >= settings.minWidth)
               => result >= settings.minWidth)
        /\ ((settings.maxWidth > 0 /\ settings.maxWidth < settings.minWidth)
               => result = settings.maxWidth)

\* the minimum decides the width of a short title, below an enabled maximum
C1_Witness ==
    /\ Calculated /\ probe.hasTitle
    /\ settings.maxWidth > settings.minWidth
    /\ result = settings.minWidth
    /\ settings.minWidth > 0

\* The formula of C2, written out on its own; rounded says whether the
\* maximum of the two is rounded up to a whole pixel.
RefIconSpace(S) == IF S.hideTabIcons \/ S.iconWidth <= 0 THEN 0 ELSE S.iconWidth
RefUp(x) == CHOOSE c \in x..(x + SubPx - 1) : c % SubPx = 0
RefWidth(S, textWidth, rounded) ==
    LET sum == S.leftPadding + RefIconSpace(S) + textWidth
               + S.closeButtonLeftPadding + S.closeButtonRightPadding
        w == IF S.minWidth > sum THEN S.minWidth ELSE sum
        r == IF rounded THEN RefUp(w) ELSE w
    IN  IF S.maxWidth > 0 THEN (IF r < S.maxWidth THEN r ELSE S.maxWidth) ELSE r

\* C2 (as stated): the computed width equals max(minWidth, leftPadding +
\* iconSpace + textWidth + closeButtonLeftPadding + closeButtonRightPadding),
\* clamped to maxWidth iff maxWidth > 0.
C2_Original ==
    (Calculated /\ probe.hasTitle) =>
        result = RefWidth(settings, measureTextWidth(probe.offsetWidth), FALSE)

\* C2 (amended): the computed width equals that maximum rounded up to a whole
\* pixel (Math.ceil), then clamped to maxWidth iff maxWidth > 0.
C2_Formula ==
    (Calculated /\ probe.hasTitle) =>
        result = RefWidth(settings, measureTextWidth(probe.offsetWidth), TRUE)

\* a fractional padding: the sum is rounded up, and icons take no space when hidden
C2_Witness ==
    /\ Calculated /\ probe.hasTitle
    /\ settings.leftPadding % SubPx # 0
    /\ settings.hideTabIcons /\ settings.iconWidth > 0
    /\ settings.maxWidth = 0
    /\ result > settings.minWidth
    /\ result % SubPx = 0

C3_Case ==
    /\ Calculated /\ probe.hasTitle /\ probe.offsetWidth = Px(35)
    /\ settings.minWidth = Px(40) /\ settings.leftPadding = Px(12)
    /\ settings.closeButtonLeftPadding = Px(30)
    /\ settings.closeButtonRightPadding = Px(8)
    /\ settings.iconWidth = Px(20) /\ ~settings.hideTabIcons
    /\ settings.maxWidth = 0

C13_Monotone ==
    (Calculated /\ probe.hasTitle) =>
        \A p \in CalcProbes :
            (p.hasTitle /\ probe.offsetWidth <= p.offsetWidth) =>
                result <= calculateHeaderWidth(TRUE, p.offsetWidth, settings)

\* with the maximum enabled, a wider title is clamped and a narrower one is
\* strictly below it but above the minimum
C13_Witness ==
    /\ Calculated /\ probe.hasTitle
    /\ settings.maxWidth > 0
    /\ result > settings.minWidth
    /\ \E p \in CalcProbes :
          /\ p.hasTitle /\ probe.offsetWidth < p.offsetWidth
          /\ result < calculateHeaderWidth(TRUE, p.offsetWidth, settings)
          /\ calculateHeaderWidth(TRUE, p.offsetWidth, settings) = settings.maxWidth


\* C21: for a header without a title element calculateHeaderWidth returns
\* settings.minWidth itself, whatever the other settings are: no padding, no
\* rounding and no maximum are applied.
C21_NoTitle ==
    (Calculated /\ ~probe.hasTitle) => result = settings.minWidth

\* a header without a title element under a maximum smaller than the minimum:
\* the result is the minimum, above the maximum
C21_Witness ==
    /\ Calculated /\ ~probe.hasTitle
    /\ settings.maxWidth > 0
    /\ settings.minWidth > settings.maxWidth
    /\ result = settings.minWidth

\* ======================================================= settings specification
\* Loading the settings and typing into the numeric fields of the settings tab.
\* Here probe holds the stored blob and the latest field input (with the
\* value the setting had before it), and result
\* holds the DEFAULT_SETTINGS object, the CSS custom properties on the root
\* element, and whether this.settings is the DEFAULT_SETTINGS object itself.
\* The stored blob is only read by onload, so the main specification does not
\* follow it.

\* this.settings before loadSettings has assigned it
Unloaded == << >>
Loaded == DOMAIN settings # {}

\* what loadData resolves to: null (no data.json), or an object
Null == [isNull |-> TRUE, object |-> << >>]
Stored(object) == [isNull |-> FALSE, object |-> object]
\* what data.json can hold here: nothing, or some of the keys
Blobs ==
    { Null } \cup
    { Stored([ k \in ks |-> CASE k = "minWidth" -> Px(60)
                              [] k = "maxWidth" -> MaxWidthOn
                              [] OTHER -> TRUE ]) :
        ks \in SUBSET {"minWidth", "maxWidth", "hideTabIcons"} }

\* Object.assign(target, source): the contents of target afterwards (a null
\* source is skipped, a key of the source overwrites the target's)
ObjectAssign(target, source) ==
    IF source.isNull THEN target
    ELSE [ k \in DOMAIN target \cup DOMAIN source.object |->
             IF k \in DOMAIN source.object THEN source.object[k] ELSE target[k] ]

\* the objects after loadSettings: h.defaults is the DEFAULT_SETTINGS object
loadSettings_IntoDefaults(h, data) ==
    [ h EXCEPT !.defaults = ObjectAssign(h.defaults, data),
               !.settings = ObjectAssign(h.defaults, data),
               !.sameObject = TRUE ]

\* this.settings = Object.assign({}, DEFAULT_SETTINGS, await this.loadData())
loadSettings(h, data) ==
    [ h EXCEPT !.settings = ObjectAssign(ObjectAssign(<< >>, Stored(h.defaults)), data),
               !.sameObject = FALSE ]

\* a CSS value: a length in px (or ms), or a keyword
Css(unit, n) == [unit |-> unit, n |-> n]

\* updateCSSVariables: the custom properties it sets on the root element and
\* the class it toggles on body
updateCSSVariables(S) ==
    [ minWidth |-> Css("px", S.minWidth),
      leftPadding |-> Css("px", S.leftPadding),
      closeButtonLeftPadding |-> Css("px", S.closeButtonLeftPadding),
      closeButtonRightPadding |-> Css("px", S.closeButtonRightPadding),
      transitionDuration |-> Css("ms", S.transitionDuration),
      iconWidth |-> IF S.hideTabIcons THEN Css("", 0) ELSE Css("px", S.iconWidth),
      iconDisplay |-> IF S.hideTabIcons THEN Css("none", 0)
                      ELSE IF S.iconWidth > 0 THEN Css("flex", 0) ELSE Css("none", 0),
      maxWidth |-> IF S.maxWidth > 0 THEN Css("px", S.maxWidth) ELSE Css("none", 0),
      hideTabIconsClass |-> S.hideTabIcons ]

\* ------------------------------------------------------------- field text
\* the characters a field text is made of here, and the texts
Chars == {" ", "-", "0", "1", "a"}
Texts == UNION { [1..n -> Chars] : n \in 0..MaxTextLen }

RECURSIVE TrimLeft(_)
TrimLeft(text) ==
    IF text # << >> /\ Head(text) = " " THEN TrimLeft(Tail(text)) ELSE text
RECURSIVE TrimRight(_)
TrimRight(text) ==
    IF text # << >> /\ text[Len(text)] = " "
    THEN TrimRight(SubSeq(text, 1, Len(text) - 1)) ELSE text

IsDigits(text) ==
    text # << >> /\ \A i \in 1..Len(text) : text[i] \in {"0", "1"}
RECURSIVE DigitsValue(_)
DigitsValue(text) ==
    IF text = << >> THEN 0
    ELSE 10 * DigitsValue(SubSeq(text, 1, Len(text) - 1))
         + (IF text[Len(text)] = "1" THEN 1 ELSE 0)

\* a JavaScript number: NaN or a value
Num(nan, value) == [nan |-> nan, value |-> value]

\* Number(value) of a string: white space is stripped, the empty string is 0,
\* an optionally signed decimal numeral is its value, anything else is NaN
Number(text) ==
    LET trimmed == TrimRight(TrimLeft(text))
    IN  IF trimmed = << >> THEN Num(FALSE, 0)
        ELSE IF Head(trimmed) = "-"
             THEN IF IsDigits(Tail(trimmed))
                  THEN Num(FALSE, 0 - DigitsValue(Tail(trimmed)))
                  ELSE Num(TRUE, 0)
             ELSE IF IsDigits(trimmed) THEN Num(FALSE, DigitsValue(trimmed))
                  ELSE Num(TRUE, 0)

\* the fields typed into here: one of the first group (its handler refreshes
\* the CSS variables itself) and the two of 'Basic dimensions'
FieldProps == {"transitionDuration", "minWidth", "maxWidth"}
FirstGroup == {"closeButtonLeftPadding", "closeButtonRightPadding",
               "transitionDuration"}
\* a number of px is kept in sub-pixel units, a number of ms as it is
InUnits(prop, n) == IF prop = "transitionDuration" THEN n ELSE Px(n)

NoInput == [data |-> Null, prop |-> "none", text |-> << >>, previous |-> 0]

InitSettings ==
    /\ settings = Unloaded
    /\ \E d \in Blobs : probe = [NoInput EXCEPT !.data = d]
    /\ result = [ defaults |-> DEFAULT_SETTINGS, sameObject |-> FALSE,
                  cssVars |-> << >> ]
    /\ tabWidthCache = << >>
    /\ isAdjustmentQueued = FALSE
    /\ isResetting = FALSE
    /\ closeInProgress = FALSE
    /\ debounceTimeout = FALSE
    /\ observer = FALSE
    /\ headers = [ t \in Tabs |-> NewHeader ]
    /\ rafQueue = << >>
    /\ timers = << >>
    /\ pendingSaves = << >>
    /\ frameLog = << >>
    /\ calls = 0
    /\ events = 0

\* onload: loadSettings, updateCSSVariables, and initialize requests its frame
LoadSettings ==
    /\ ~Loaded
    /\ LET h == loadSettings([ defaults |-> result.defaults, settings |-> settings,
                               sameObject |-> result.sameObject ], probe.data)
       IN  /\ settings' = h.settings
           /\ result' = [ defaults |-> h.defaults, sameObject |-> h.sameObject,
                          cssVars |-> updateCSSVariables(h.settings) ]
    /\ rafQueue' = << RafCb("init", << >>) >>
    /\ UNCHANGED << tabWidthCache, isAdjustmentQueued, isResetting, closeInProgress,
                    debounceTimeout, observer, headers, timers, pendingSaves,
                    frameLog, calls, events, probe >>

\* the onChange handler of a numeric field, up to `await saveData` in
\* saveSettings; saveData is handed the settings object
FieldInput ==
    \E prop \in FieldProps, text \in Texts :
        /\ Loaded
        /\ events < MaxInputs
        /\ Len(pendingSaves) < MaxSaves
        /\ events' = events + 1
        /\ LET numValue == Number(text)
               accepted == ~numValue.nan /\ numValue.value >= 0
               assigned == [settings EXCEPT ![prop] = InUnits(prop, numValue.value)]
           IN  IF accepted
               THEN /\ settings' = assigned
                    /\ result' = [ result EXCEPT
                                     !.defaults = IF result.sameObject THEN assigned
                                                  ELSE @,
                                     !.cssVars = IF prop \in FirstGroup
                                                 THEN updateCSSVariables(assigned)
                                                 ELSE @ ]
                    /\ pendingSaves' = Append(pendingSaves, assigned.maxWidth)
                    /\ probe' = [ data |-> Stored(assigned), prop |-> prop,
                                  text |-> text, previous |-> settings[prop] ]
               ELSE /\ probe' = [ probe EXCEPT !.prop = prop, !.text = text,
                                               !.previous = settings[prop] ]
                    /\ UNCHANGED << settings, result, pendingSaves >>
        /\ UNCHANGED << tabWidthCache, isAdjustmentQueued, isResetting,
                        closeInProgress, debounceTimeout, observer, headers,
                        rafQueue, timers, frameLog, calls >>

\* saveData resolves: saveSettings refreshes the CSS variables and goes on to
\* resetTabs or queueHeaderAdjustment
SettingsSaved ==
    /\ pendingSaves # << >>
    /\ \E s \in { saveSettingsResume([Cur EXCEPT !.pendingSaves = Tail(@)],
                                     Head(pendingSaves)) } :
          /\ tabWidthCache' = s.tabWidthCache
          /\ isAdjustmentQueued' = s.isAdjustmentQueued
          /\ isResetting' = s.isResetting
          /\ headers' = s.headers
          /\ rafQueue' = s.rafQueue
          /\ timers' = s.timers
          /\ pendingSaves' = s.pendingSaves
          /\ calls' = s.calls
    /\ result' = [result EXCEPT !.cssVars = updateCSSVariables(settings)]
    /\ UNCHANGED << settings, closeInProgress, debounceTimeout, observer,
                    frameLog, events, probe >>

NextSettings == LoadSettings \/ FieldInput \/ SettingsSaved

SpecSettings == InitSettings /\ [][NextSettings]_vars

\* what the claim calls a valid non-negative number: a non-empty decimal
\* numeral, white space around it aside
ValidText(text) == IsDigits(TrimRight(TrimLeft(text)))

\* C15 (as stated): when the text entered in a numeric field is not a valid
\* non-negative number (non-numeric text, a negative number, an empty field)
\* the setting keeps its value and nothing is saved, refreshed or scheduled.
C15_Original ==
    [][ (FieldInput /\ ~ValidText(probe'.text)) =>
            /\ settings' = settings
            /\ pendingSaves' = pendingSaves
            /\ result' = result
            /\ probe'.data = probe.data ]_vars

\* the field was emptied: the setting is 0 (it was not before) and a save is
\* under way
C15_Witness ==
    /\ probe.prop = "minWidth" /\ probe.text = << >>
    /\ settings.minWidth = 0
    /\ result.defaults.minWidth > 0
    /\ pendingSaves # << >>
    /\ ~probe.data.isNull /\ probe.data.object.minWidth = 0

\* C17: after loadSettings every key has the stored value when the stored blob
\* has the key and the DEFAULT_SETTINGS value otherwise, and the
\* DEFAULT_SETTINGS object is as it was, after loading and after later
\* changes of the settings.
C17_Loaded ==
    Loaded =>
        /\ result.defaults = DEFAULT_SETTINGS
        /\ probe.prop = "none" =>
              /\ DOMAIN settings = DOMAIN DEFAULT_SETTINGS
              /\ \A k \in DOMAIN settings :
                    settings[k] = IF ~probe.data.isNull
                                     /\ k \in DOMAIN probe.data.object
                                  THEN probe.data.object[k]
                                  ELSE DEFAULT_SETTINGS[k]

\* a blob with some keys was loaded (one stored value, one default) and a
\* field has since changed a setting away from its default
C17_Witness ==
    /\ Loaded
    /\ probe.prop = "minWidth" /\ settings.minWidth # DEFAULT_SETTINGS.minWidth
    /\ settings.maxWidth = MaxWidthOn
    /\ settings.hideTabIcons = DEFAULT_SETTINGS.hideTabIcons
    /\ result.defaults = DEFAULT_SETTINGS


\* C23 (as stated): the saveSettings of a change that takes maxWidth from a
\* positive value to 0 calls resetTabs, and the saveSettings of any other
\* change does not (the only change so far is the one whose save resumes).
C23_Original ==
    [][ (SettingsSaved /\ events = 1 /\ Len(pendingSaves) = 1) =>
            (isResetting' <=> /\ probe.prop = "maxWidth"
                              /\ probe.previous > 0
                              /\ settings.maxWidth = 0) ]_vars

\* 'Max width' was changed from a positive value to 0 by typing 0, the save
\* has resumed, and a pass is queued instead of a reset
C23_Witness ==
    /\ probe.prop = "maxWidth" /\ probe.text = << "0" >>
    /\ probe.previous > 0 /\ settings.maxWidth = 0
    /\ events = 1 /\ pendingSaves = << >>
    /\ isAdjustmentQueued /\ ~isResetting /\ timers = << >>
    /\ result.cssVars.maxWidth = Css("none", 0)

\* =========================================================== icon specification
\* stabilizeIcon and the icon element of each tab header.  Here result holds,
\* for each tab, the icon element: its markup (innerHTML), whether it carries
\* stable-icon, and the snapshots of the connected icon observers, oldest
\* first.  The host changes an icon by replacing its children.
Icons == 1..MaxIcons
IconEl(html) == [html |-> html, stable |-> FALSE, observers |-> << >>]

\* stabilizeIcon(header), its setTimeout aside
stabilizeIcon(icons, t) ==
    [ icons EXCEPT ![t].stable = TRUE,
                   ![t].observers = Append(@, icons[t].html) ]

RECURSIVE stabilizeIcons(_, _, _)
\* handleFileOpen's forEach over the active headers: the icon elements
stabilizeIcons(icons, hs, n) ==
    IF n = 0 THEN icons
    ELSE stabilizeIcon(stabilizeIcons(icons, hs, n - 1), hs[n])

RECURSIVE addIconTimers(_, _, _)
\* ... and the timers stabilizeIcon sets
addIconTimers(q, hs, n) ==
    IF n = 0 THEN q
    ELSE Append(addIconTimers(q, hs, n - 1), Timer("iconDone", hs[n], {}))

RECURSIVE runIconObservers(_, _, _)
\* the callbacks of the connected observers after a change, oldest first
runIconObservers(html, observers, n) ==
    IF n = 0 THEN html
    ELSE LET before == runIconObservers(html, observers, n - 1)
         IN  IF before # observers[n] THEN observers[n] ELSE before

\* the setTimeout callback of stabilizeIcon: its own observer is disconnected
stabilizeIconTimer(icons, t) ==
    [ icons EXCEPT ![t].observers = Tail(@), ![t].stable = FALSE ]

InitIcon ==
    /\ settings = DEFAULT_SETTINGS
    /\ tabWidthCache = << >>
    /\ isAdjustmentQueued = FALSE
    /\ isResetting = FALSE
    /\ closeInProgress = FALSE
    /\ debounceTimeout = FALSE
    /\ observer = FALSE
    /\ \E a \in Tabs, ti \in [Tabs -> Titles] :
          headers = [ t \in Tabs |-> OpenHeader(ti[t], t = a) ]
    /\ rafQueue = << RafCb("init", << >>) >>
    /\ timers = << >>
    /\ pendingSaves = << >>
    /\ frameLog = << >>
    /\ calls = 0
    /\ events = 0
    /\ probe = NoProbe
    /\ result \in [Tabs -> {IconEl(i) : i \in Icons}]

\* workspace 'file-open': handleFileOpen with its stabilizeIcon calls
IconFileOpen ==
    /\ events < MaxEvents
    /\ CountKind(timers, "iconDone") < MaxTimers
    /\ CountKind(timers, "fileOpen") < MaxTimers
    /\ LET act == InOrder({t \in getAllHeaders(Cur) : headers[t].isActive})
       IN  IF closeInProgress THEN UNCHANGED << timers, result >>
           ELSE /\ timers' = addIconTimers(handleFileOpen(Cur).timers, act, Len(act))
                /\ result' = stabilizeIcons(result, act, Len(act))
    /\ events' = events + 1
    /\ frameLog' = << >>
    /\ UNCHANGED << settings, tabWidthCache, isAdjustmentQueued, isResetting,
                    closeInProgress, debounceTimeout, observer, headers, rafQueue,
                    pendingSaves, calls, probe >>

\* the host replaces the children of a tab's icon; the connected icon
\* observers are called before anything else runs
HostSetsIcon ==
    \E t \in getAllHeaders(Cur), html \in Icons :
        /\ events < MaxEvents
        /\ html # result[t].html
        /\ result' = [ result EXCEPT ![t].html =
                         runIconObservers(html, result[t].observers,
                                          Len(result[t].observers)) ]
        /\ events' = events + 1
        /\ frameLog' = << >>
        /\ UNCHANGED << settings, tabWidthCache, isAdjustmentQueued, isResetting,
                        closeInProgress, debounceTimeout, observer, headers,
                        rafQueue, timers, pendingSaves, calls, probe >>

IconTimerFires ==
    \E i \in 1..Len(timers) :
        /\ timers[i].kind = "iconDone" /\ Due(i)
        /\ timers' = SeqRemove(timers, i)
        /\ result' = stabilizeIconTimer(result, timers[i].tab)
        /\ frameLog' = << >>
        /\ UNCHANGED << settings, tabWidthCache, isAdjustmentQueued, isResetting,
                        closeInProgress, debounceTimeout, observer, headers,
                        rafQueue, pendingSaves, calls, events, probe >>

NextIcon ==
    \/ IconFileOpen
    \/ HostSetsIcon
    \/ IconTimerFires
    \/ FileOpenFires
    \/ HostActivate
    \/ Frame

SpecIcon == InitIcon /\ [][NextIcon]_vars

\* the stabilization windows of tab t that are open: their timers are pending
IconWindows(t) ==
    Cardinality({i \in 1..Len(timers) :
                    timers[i].kind = "iconDone" /\ timers[i].tab = t})

\* C19 (as stated): while a stabilization window of a tab is open its icon
\* carries stable-icon and shows the markup snapshotted when the window began,
\* also when a second window of the same tab began inside the first.
C19_Original ==
    \A t \in Tabs :
        IconWindows(t) > 0 =>
            /\ result[t].stable
            /\ \A k \in 1..Len(result[t].observers) :
                  result[t].html = result[t].observers[k]

\* the first of two windows of a tab has ended: the second window's observer
\* is connected and its timer pending, and the icon is without stable-icon
C19_Witness ==
    \E t \in Tabs :
        /\ IconWindows(t) = 1
        /\ Len(result[t].observers) = 1
        /\ result[t].html = result[t].observers[1]
        /\ ~result[t].stable


\* ========================================================= scroll specification
\* scrollToActiveTab on one main-area tab.  Here probe holds the geometry the
\* call reads (offsetLeft and the bounding widths, in sub-pixel units, and the
\* container's scrollLeft before the call) and result holds the container's
\* scrollLeft, the running animation, what the call decided, and the tab's
\* out-of-view class.
Half(x) == x \div 2

\* what the call does: whether it calls smoothScrollTo, and with what end
NoScroll == [start |-> FALSE, end |-> 0]

scrollToActiveTab_LeftEdgeOnly(p, scrollLeft) ==
    IF ~p.mainArea THEN NoScroll
    ELSE LET tabLeft == p.tabLeft
             containerLeft == scrollLeft
         IN  IF tabLeft < containerLeft
             THEN LET targetScroll == (tabLeft + Half(p.tabWidth))
                                      - Half(p.containerWidth)
                  IN  [start |-> TRUE, end |-> Max(0, targetScroll)]
             ELSE NoScroll

\* scrollToActiveTab(activeTab), its setTimeout aside
scrollToActiveTab(p, scrollLeft) ==
    IF ~p.mainArea THEN NoScroll
    ELSE LET tabLeft == p.tabLeft
             tabRight == tabLeft + p.tabWidth
             containerLeft == scrollLeft
             containerRight == containerLeft + p.containerWidth
         IN  IF tabLeft < containerLeft \/ tabRight > containerRight
             THEN LET targetScroll == (tabLeft + Half(p.tabWidth))
                                      - Half(p.containerWidth)
                  IN  [start |-> TRUE, end |-> Max(0, targetScroll)]
             ELSE NoScroll

\* progress of an animation in quarters of its duration (4 is Math.min's 1),
\* and easeInOutQuad of it in eighths: t < 0.5 ? 2 t^2 : 1 - (-2 t + 2)^2 / 2
Progress == 0..4
easeInOutQuad(quarters) ==
    IF quarters < 2 THEN quarters * quarters
    ELSE 8 - (4 - quarters) * (4 - quarters)
NotStarted == 0 - 1
\* the time since startTime that a frame's timestamp shows, in quarters of the
\* duration, and Math.min(elapsedTime / duration, 1)
Elapsed == 0..6
progressOf(elapsed) == Min(elapsed, 4)

\* animateScroll's last statement: whether it requests another frame
requestsFrame_Always(progress) == TRUE

requestsFrame(progress) == progress < 4

\* smoothScrollTo: one animateScroll frame at the given progress
animateScroll(a, quarters) ==
    a.start + ((a.end - a.start) * easeInOutQuad(quarters)) \div 8

\* updateTabsVisibility for the tab: entirely left or right of the container
isOutOfView(p, scrollLeft) ==
    \/ (p.tabLeft + p.tabWidth) - scrollLeft < 0
    \/ p.tabLeft - scrollLeft > p.containerWidth

Geometries ==
    [ tabLeft : {0, Px(60), Px(200), Px(400)},
      tabWidth : {Px(40), Px(136)},
      containerWidth : {Px(100), Px(300)},
      scrollLeft : {0, Px(60), Px(150)},
      mainArea : {TRUE} ]

NoAnimation == [start |-> 0, end |-> 0, progress |-> 4, elapsed |-> 4, requested |-> 0]

InitScroll ==
    /\ probe \in Geometries
    /\ result = [ scrollLeft |-> probe.scrollLeft, called |-> FALSE,
                  decided |-> NoScroll, animation |-> NoAnimation,
                  outOfView |-> FALSE ]
    /\ settings = DEFAULT_SETTINGS
    /\ tabWidthCache = << >>
    /\ isAdjustmentQueued = FALSE
    /\ isResetting = FALSE
    /\ closeInProgress = FALSE
    /\ debounceTimeout = FALSE
    /\ observer = FALSE
    /\ headers = [ t \in Tabs |-> NewHeader ]
    /\ rafQueue = << >>
    /\ timers = << >>
    /\ pendingSaves = << >>
    /\ frameLog = << >>
    /\ calls = 0
    /\ events = 0

\* a call of scrollToActiveTab on the tab
ScrollToActiveTab ==
    /\ ~result.called
    /\ LET d == scrollToActiveTab(probe, result.scrollLeft)
       IN  result' = [ result EXCEPT
                         !.called = TRUE,
                         !.decided = d,
                         !.animation = IF d.start
                                       THEN [ start |-> result.scrollLeft,
                                              end |-> d.end,
                                              progress |-> NotStarted,
                                              elapsed |-> NotStarted,
                                              requested |-> 1 ]
                                       ELSE @ ]
    /\ timers' = IF probe.mainArea THEN Append(timers, Timer("visibility", 0, {}))
                 ELSE timers
    /\ UNCHANGED << settings, tabWidthCache, isAdjustmentQueued, isResetting,
                    closeInProgress, debounceTimeout, observer, headers, rafQueue,
                    pendingSaves, frameLog, calls, events, probe >>

\* an animation frame of smoothScrollTo: time has moved on
AnimateScroll ==
    \E elapsed \in Elapsed :
        /\ result.animation.requested > 0
        /\ elapsed > result.animation.elapsed
        /\ LET quarters == progressOf(elapsed)
           IN  result' = [ result EXCEPT
                             !.scrollLeft = animateScroll(result.animation, quarters),
                             !.animation.progress = quarters,
                             !.animation.elapsed = elapsed,
                             !.animation.requested =
                                 (@ - 1) + (IF requestsFrame(quarters) THEN 1 ELSE 0) ]
        /\ UNCHANGED << settings, tabWidthCache, isAdjustmentQueued, isResetting,
                        closeInProgress, debounceTimeout, observer, headers,
                        rafQueue, timers, pendingSaves, frameLog, calls, events,
                        probe >>

\* the timer scrollToActiveTab sets: updateTabsVisibility
VisibilityFires ==
    \E i \in 1..Len(timers) :
        /\ timers[i].kind = "visibility" /\ Due(i)
        /\ timers' = SeqRemove(timers, i)
        /\ result' = [ result EXCEPT
                         !.outOfView = IF isResetting THEN @
                                       ELSE isOutOfView(probe, result.scrollLeft) ]
        /\ UNCHANGED << settings, tabWidthCache, isAdjustmentQueued, isResetting,
                        closeInProgress, debounceTimeout, observer, headers,
                        rafQueue, pendingSaves, frameLog, calls, events, probe >>

NextScroll == ScrollToActiveTab \/ AnimateScroll \/ VisibilityFires

SpecScroll == InitScroll /\ [][NextScroll]_vars

\* the claim's condition and target, on the geometry before the call
RefNotFullyVisible ==
    \/ probe.tabLeft < probe.scrollLeft
    \/ probe.tabLeft + probe.tabWidth > probe.scrollLeft + probe.containerWidth
RefTarget ==
    Max(0, probe.tabLeft + Half(probe.tabWidth) - Half(probe.containerWidth))

\* C20: scrollToActiveTab starts a scroll animation exactly when the tab is
\* not fully inside the container's visible extent; the animation runs from
\* the current scrollLeft to max(0, tabLeft + tabWidth/2 - containerWidth/2)
\* and ends there; when the tab is fully visible scrollLeft stays as it was.
C20_Scroll ==
    result.called =>
        /\ result.decided.start <=> RefNotFullyVisible
        /\ result.decided.start =>
              /\ result.animation.start = probe.scrollLeft
              /\ result.animation.end = RefTarget
              /\ result.animation.progress = 4 => result.scrollLeft = RefTarget
        /\ ~result.decided.start =>
              /\ result.animation = NoAnimation
              /\ result.scrollLeft = probe.scrollLeft

\* a tab beyond the right edge only: the animation has ended at a target
\* above 0 that centres the tab
C20_Witness ==
    /\ result.called /\ result.decided.start
    /\ probe.tabLeft >= probe.scrollLeft
    /\ result.animation.progress = 4
    /\ result.scrollLeft > 0
    /\ result.scrollLeft # probe.scrollLeft
    /\ result.scrollLeft + Half(probe.containerWidth)
          = probe.tabLeft + Half(probe.tabWidth)


\* C29: a frame of smoothScrollTo whose elapsed time has reached the duration
\* sets scrollLeft to the end value and requests no further frame; an earlier
\* frame requests exactly one and sets scrollLeft between start and end.
C29_Terminates ==
    [][ AnimateScroll =>
          LET a == result'.animation
          IN  /\ a.elapsed >= 4 =>
                    /\ result'.scrollLeft = a.end
                    /\ a.requested = 0
              /\ a.elapsed < 4 =>
                    /\ a.requested = 1
                    /\ result'.scrollLeft >= Min(a.start, a.end)
                    /\ result'.scrollLeft <= Max(a.start, a.end) ]_vars

\* an animation to the left has run a frame midway and a last frame later
\* than its duration: it stands at its end value with no frame requested
C29_Witness ==
    /\ result.called /\ result.decided.start
    /\ result.animation.end < result.animation.start
    /\ result.animation.elapsed > 4
    /\ result.animation.requested = 0
    /\ result.scrollLeft = result.animation.end


\* ======================================================= debounce specification
\* Layout-change events against a clock that counts ticks of 50 ms.  Here probe
\* holds the clock, the time of the latest layout-change event and the number
\* of debounce callbacks run since it; result holds, for each pending timer of
\* the sequence timers, the time at which it is due.  A timer runs at the
\* instant it is due, before the clock advances and before an event of that
\* instant.
DebounceDelay == 2
NoEvents == [now |-> 0, seen |-> FALSE, lastEvent |-> 0, fired |-> 0]

InitDebounce ==
    /\ settings = DEFAULT_SETTINGS
    /\ tabWidthCache = << >>
    /\ isAdjustmentQueued = FALSE
    /\ isResetting = FALSE
    /\ closeInProgress = FALSE
    /\ debounceTimeout = FALSE
    /\ observer = FALSE
    /\ \E a \in Tabs, ti \in [Tabs -> Titles] :
          headers = [ t \in Tabs |-> OpenHeader(ti[t], t = a) ]
    /\ rafQueue = << RafCb("init", << >>) >>
    /\ timers = << >>
    /\ pendingSaves = << >>
    /\ frameLog = << >>
    /\ calls = 0
    /\ events = 0
    /\ probe = NoEvents
    /\ result = << >>

TimerDue == \E i \in 1..Len(result) : result[i] <= probe.now

\* 50 ms pass
Tick ==
    /\ probe.now < MaxTime
    /\ ~TimerDue
    /\ probe' = [probe EXCEPT !.now = @ + 1]
    /\ UNCHANGED << settings, tabWidthCache, isAdjustmentQueued, isResetting,
                    closeInProgress, debounceTimeout, observer, headers, rafQueue,
                    timers, pendingSaves, frameLog, calls, events, result >>

\* workspace 'layout-change' at the present instant
DebounceLayoutChange ==
    /\ events < MaxEvents
    /\ ~TimerDue
    /\ \E s \in {debounceLayoutChange(Cur)} :
          /\ timers' = s.timers
          /\ debounceTimeout' = s.debounceTimeout
          /\ result' = Append(IF Len(s.timers) = 1 THEN << >> ELSE result,
                              probe.now + DebounceDelay)
    /\ probe' = [probe EXCEPT !.seen = TRUE, !.lastEvent = probe.now, !.fired = 0]
    /\ events' = events + 1
    /\ frameLog' = << >>
    /\ UNCHANGED << settings, tabWidthCache, isAdjustmentQueued, isResetting,
                    closeInProgress, observer, headers, rafQueue, pendingSaves,
                    calls >>

\* a debounce timer is due: its callback runs
DebounceTimerFires ==
    \E i \in 1..Len(timers) :
        /\ result[i] <= probe.now
        /\ \E s \in {debounceTimer(Fired(i))} :
              /\ timers' = s.timers
              /\ debounceTimeout' = s.debounceTimeout
              /\ isAdjustmentQueued' = s.isAdjustmentQueued
              /\ rafQueue' = s.rafQueue
              /\ calls' = s.calls
        /\ result' = SeqRemove(result, i)
        /\ probe' = [probe EXCEPT !.fired = @ + 1]
        /\ frameLog' = << >>
        /\ UNCHANGED << settings, tabWidthCache, isResetting, closeInProgress,
                        observer, headers, pendingSaves, events >>

NextDebounce ==
    \/ Tick
    \/ DebounceLayoutChange
    \/ DebounceTimerFires
    \/ Frame

SpecDebounce == InitDebounce /\ [][NextDebounce]_vars

\* C25: at most one debounce timer is pending and debounceTimeout is null when
\* none is; a debounce callback runs 100 ms after the latest layout-change
\* event, is the only one since that event and calls queueHeaderAdjustment;
\* no callback runs within 100 ms of the latest event, and once more than
\* 100 ms have passed since it exactly one has run.
C25_Debounce ==
    [][ /\ Len(timers') <= 1
        /\ (timers' = << >>) => ~debounceTimeout'
        /\ probe'.fired <= 1
        /\ (probe'.seen /\ probe'.now < probe'.lastEvent + DebounceDelay)
              => probe'.fired = 0
        /\ (probe'.seen /\ probe'.now > probe'.lastEvent + DebounceDelay)
              => probe'.fired = 1
        /\ DebounceTimerFires =>
              /\ probe.now = probe.lastEvent + DebounceDelay
              /\ probe.fired = 0
              /\ isAdjustmentQueued'
              /\ calls' = Min(calls + 1, MaxCalls) ]_vars

\* a burst of three layout-change events, each within 100 ms of the one
\* before, has ended and its one callback has run
C25_Witness ==
    /\ events = 3
    /\ probe.lastEvent >= 2
    /\ probe.now > probe.lastEvent + DebounceDelay
    /\ probe.fired = 1
    /\ timers = << >> /\ ~debounceTimeout
    /\ isAdjustmentQueued


\* ================================================ icon-transition specification
\* The icon observer of setupIconStabilizationObserver, which the init callback
\* connects together with the main observer.  One childList record whose
\* target is the icon element of tab t:
iconObserverCallback(s, t) ==
    IF ~s.observer \/ s.headers[t].dom # "dom" \/ s.headers[t].isActive THEN s
    ELSE [ s EXCEPT !.headers[t].classes = @ \cup {"icon-transition"},
                    !.timers = Append(@, Timer("iconTransition", t, {})) ]

\* its transitionDuration callback
iconTransitionTimer(s, t) ==
    [ s EXCEPT !.headers[t].classes = @ \ {"icon-transition"} ]

InitTransition ==
    /\ settings = DEFAULT_SETTINGS
    /\ tabWidthCache = << >>
    /\ isAdjustmentQueued = FALSE
    /\ isResetting = FALSE
    /\ closeInProgress = FALSE
    /\ debounceTimeout = FALSE
    /\ observer = FALSE
    /\ \E a \in Tabs, ti \in [Tabs -> Titles] :
          headers = [ t \in Tabs |-> OpenHeader(ti[t], t = a) ]
    /\ rafQueue = << RafCb("init", << >>) >>
    /\ timers = << >>
    /\ pendingSaves = << >>
    /\ frameLog = << >>
    /\ calls = 0
    /\ events = 0
    /\ probe = NoProbe
    /\ result = NoWidth

\* the host replaces the children of a tab's icon element: both observers
\* receive the record
HostChangesIcon ==
    \E t \in getAllHeaders(Cur) :
        /\ CountKind(timers, "iconTransition") < MaxTimers
        /\ Event(observerCallback(iconObserverCallback(Cur, t),
                                  << Mutation("childList", FALSE, "inHeader") >>))

TransitionTimerFires ==
    \E i \in 1..Len(timers) :
        /\ timers[i].kind = "iconTransition" /\ Due(i)
        /\ Step(iconTransitionTimer(Fired(i), timers[i].tab))

NextTransition ==
    \/ HostChangesIcon
    \/ TransitionTimerFires
    \/ HostActivate
    \/ Frame

SpecTransition == InitTransition /\ [][NextTransition]_vars

\* C27 (as stated): icon-transition stays on a tab for transitionDuration
\* after the most recent icon mutation that added it: while the timer of such
\* a mutation is pending, the tab carries the class.
C27_Original ==
    \A i \in 1..Len(timers) :
        timers[i].kind = "iconTransition"
            => "icon-transition" \in headers[timers[i].tab].classes

\* the timer of an earlier icon mutation has removed the class from a
\* non-active tab while the timer of a later one is pending
C27_Witness ==
    \E i \in 1..Len(timers) :
        /\ timers[i].kind = "iconTransition"
        /\ ~headers[timers[i].tab].isActive
        /\ headers[timers[i].tab].dom = "dom"
        /\ "icon-transition" \notin headers[timers[i].tab].classes


\* ==================================================== re-assertion specification
\* The observers of stabilizeIcon, callback by callback.  result holds the icon
\* elements as in the icon specification; probe holds, per tab, which of the
\* icon's observers have records queued (pending), the observer called last in
\* the present round of notifications (cursor) and the number of re-assertion
\* writes since the latest observed change (writes).  Observers are notified in
\* creation order; records queued by a callback reach the observers after it
\* in the same round and the others in the next.  Notifications are
\* microtasks: they run before any timer or event.
NoRecords ==
    [ pending |-> [t \in Tabs |-> << >>], cursor |-> [t \in Tabs |-> 0],
      writes |-> [t \in Tabs |-> 0] ]

Notifying(t) == {k \in 1..Len(probe.pending[t]) : probe.pending[t][k]}
NoMicrotask == \A t \in Tabs : Notifying(t) = {}

\* a childList record of the icon of tab t is queued for each of its observers
queueRecords(p, t) ==
    [ p EXCEPT !.pending[t] = [k \in 1..Len(@) |-> TRUE] ]

InitReassert ==
    /\ settings = DEFAULT_SETTINGS
    /\ tabWidthCache = << >>
    /\ isAdjustmentQueued = FALSE
    /\ isResetting = FALSE
    /\ closeInProgress = FALSE
    /\ debounceTimeout = FALSE
    /\ observer = FALSE
    /\ \E a \in Tabs, ti \in [Tabs -> Titles] :
          headers = [ t \in Tabs |-> OpenHeader(ti[t], t = a) ]
    /\ rafQueue = << RafCb("init", << >>) >>
    /\ timers = << >>
    /\ pendingSaves = << >>
    /\ frameLog = << >>
    /\ calls = 0
    /\ events = 0
    /\ probe = NoRecords
    /\ result \in [Tabs -> {IconEl(i) : i \in Icons}]

\* workspace 'file-open': handleFileOpen with its stabilizeIcon calls
ReassertFileOpen ==
    /\ events < MaxEvents
    /\ NoMicrotask
    /\ CountKind(timers, "iconDone") < MaxTimers
    /\ CountKind(timers, "fileOpen") < MaxTimers
    /\ LET act == InOrder({t \in getAllHeaders(Cur) : headers[t].isActive})
       IN  IF closeInProgress THEN UNCHANGED << timers, result, probe >>
           ELSE /\ timers' = addIconTimers(handleFileOpen(Cur).timers, act, Len(act))
                /\ result' = stabilizeIcons(result, act, Len(act))
                /\ probe' = [ probe EXCEPT !.pending =
                                [ t \in Tabs |->
                                    IF headers[t].dom = "dom" /\ headers[t].isActive
                                    THEN Append(@[t], FALSE) ELSE @[t] ] ]
    /\ events' = events + 1
    /\ frameLog' = << >>
    /\ UNCHANGED << settings, tabWidthCache, isAdjustmentQueued, isResetting,
                    closeInProgress, debounceTimeout, observer, headers, rafQueue,
                    pendingSaves, calls >>

\* the host replaces the children of a tab's icon: a childList record
HostReplacesIcon ==
    \E t \in getAllHeaders(Cur), html \in Icons :
        /\ events < MaxEvents
        /\ NoMicrotask
        /\ html # result[t].html
        /\ result' = [ result EXCEPT ![t].html = html ]
        /\ probe' = [ queueRecords(probe, t) EXCEPT !.writes[t] = 0 ]
        /\ events' = events + 1
        /\ frameLog' = << >>
        /\ UNCHANGED << settings, tabWidthCache, isAdjustmentQueued, isResetting,
                        closeInProgress, debounceTimeout, observer, headers,
                        rafQueue, timers, pendingSaves, calls >>

\* the host changes an attribute of an element inside a tab's icon: innerHTML
\* reads differently, and observers of { childList, subtree } get no record
HostSetsIconAttribute ==
    \E t \in getAllHeaders(Cur), html \in Icons :
        /\ events < MaxEvents
        /\ NoMicrotask
        /\ html # result[t].html
        /\ result' = [ result EXCEPT ![t].html = html ]
        /\ events' = events + 1
        /\ frameLog' = << >>
        /\ UNCHANGED << settings, tabWidthCache, isAdjustmentQueued, isResetting,
                        closeInProgress, debounceTimeout, observer, headers,
                        rafQueue, timers, pendingSaves, calls, probe >>

\* the next notification: the callback of one stabilizeIcon observer
IconObserverRuns ==
    \E t \in Tabs :
        /\ Notifying(t) # {}
        /\ LET later == {k \in Notifying(t) : k > probe.cursor[t]}
               from == IF later # {} THEN later ELSE Notifying(t)
               k == CHOOSE x \in from : \A y \in from : x <= y
               taken == [ probe EXCEPT !.pending[t][k] = FALSE, !.cursor[t] = k ]
           IN  IF result[t].html # result[t].observers[k]
               THEN /\ probe.writes[t] < MaxWrites
                    /\ result' = [ result EXCEPT ![t].html = result[t].observers[k] ]
                    /\ probe' = [ queueRecords(taken, t) EXCEPT !.writes[t] = @ + 1 ]
               ELSE /\ result' = result
                    /\ probe' = taken
        /\ frameLog' = << >>
        /\ UNCHANGED << settings, tabWidthCache, isAdjustmentQueued, isResetting,
                        closeInProgress, debounceTimeout, observer, headers,
                        rafQueue, timers, pendingSaves, calls, events >>

\* the setTimeout callback of stabilizeIcon
ReassertTimerFires ==
    \E i \in 1..Len(timers) :
        /\ timers[i].kind = "iconDone" /\ Due(i)
        /\ NoMicrotask
        /\ timers' = SeqRemove(timers, i)
        /\ result' = stabilizeIconTimer(result, timers[i].tab)
        /\ probe' = [ probe EXCEPT !.pending[timers[i].tab] = Tail(@),
                                   !.cursor[timers[i].tab] = 0 ]
        /\ frameLog' = << >>
        /\ UNCHANGED << settings, tabWidthCache, isAdjustmentQueued, isResetting,
                        closeInProgress, debounceTimeout, observer, headers,
                        rafQueue, pendingSaves, calls, events >>

NextReassert ==
    \/ ReassertFileOpen
    \/ HostReplacesIcon
    \/ HostSetsIconAttribute
    \/ IconObserverRuns
    \/ ReassertTimerFires
    \/ FileOpenFires
    \/ HostActivate
    \/ Frame

SpecReassert == InitReassert /\ [][NextReassert]_vars

\* C28 (as stated): an observed change of a stabilized icon is followed by at
\* most one re-assertion write, with one observer attached or with two.
C28_Original == \A t \in Tabs : probe.writes[t] <= 1

\* two observers with different snapshots are attached to one icon and have
\* rewritten it MaxWrites times since the latest change, and a callback that
\* will write again is queued
C28_Witness ==
    \E t \in Tabs :
        /\ Len(result[t].observers) = 2
        /\ result[t].observers[1] # result[t].observers[2]
        /\ probe.writes[t] = MaxWrites
        /\ \E k \in Notifying(t) : result[t].html # result[t].observers[k]


\* =========================================================== area specification
\* The plugin's operations in a workspace that also has tab headers outside
\* the main editor area.  Here result holds the latest click on a tab header:
\* its target, the listener that received it and whether that listener
\* stopped it (stopPropagation and preventDefault).
NoHeader == 0
NoClick == [clicked |-> FALSE, target |-> NoHeader, listener |-> "none",
            intercepted |-> FALSE]

\* target.closest('.workspace-split.mod-vertical.mod-root .workspace-tab-header')
\* for a target inside header t
closestMainHeader(s, t) == IF t \in getAllHeaders(s) THEN t ELSE NoHeader

\* handleCloseClick on a close button inside header t
handleCloseClick(s, t) ==
    IF closestMainHeader(s, t) = NoHeader THEN s
    ELSE initiateClose(s, closestMainHeader(s, t))

\* handleMiddleClick (button 1) inside header t
handleMiddleClick(s, t) ==
    IF closestMainHeader(s, t) = NoHeader THEN s
    ELSE initiateClose(s, closestMainHeader(s, t))

RECURSIVE addCleanupTimers(_, _, _)
addCleanupTimers(q, hs, n) ==
    IF n = 0 THEN q
    ELSE Append(addCleanupTimers(q, hs, n - 1), Timer("cleanupDone", hs[n], {}))

\* cleanup (onunload)
cleanup(s) ==
    LET hs == getAllHeaders(s)
    IN  [ s EXCEPT
            !.tabWidthCache = << >>,
            !.observer = FALSE,
            !.headers = [ t \in Tabs |->
                            IF t \in hs
                            THEN [ s.headers[t] EXCEPT
                                     !.classes = (@ \ {"autofit-tab", "autofit-max-width",
                                                       "out-of-view"})
                                                 \cup {"autofit-cleanup"},
                                     !.width = NoWidth ]
                            ELSE s.headers[t] ],
            !.timers = addCleanupTimers(@, InOrder(hs), Cardinality(hs)) ]

\* its transitionDuration callback for one header
cleanupTimer(s, t) ==
    [ s EXCEPT !.headers[t].classes = @ \ {"autofit-cleanup"} ]

\* onload has run in a workspace whose tab headers lie in the main area or
\* outside it; a header outside is the current tab of its sidebar group
InitArea ==
    /\ settings \in {SettingsWith(0), SettingsWith(MaxWidthOn)}
    /\ tabWidthCache = << >>
    /\ isAdjustmentQueued = FALSE
    /\ isResetting = FALSE
    /\ closeInProgress = FALSE
    /\ debounceTimeout = FALSE
    /\ observer = FALSE
    /\ \E a \in Tabs, ti \in [Tabs -> Titles], area \in [Tabs -> {"dom", "side"}] :
          /\ (\E t \in Tabs : area[t] = "dom") => area[a] = "dom"
          /\ headers = [ t \in Tabs |->
                           [ OpenHeader(ti[t], t = a \/ area[t] = "side") EXCEPT
                               !.dom = area[t] ] ]
    /\ rafQueue = << RafCb("init", << >>) >>
    /\ timers = << >>
    /\ pendingSaves = << >>
    /\ frameLog = << >>
    /\ calls = 0
    /\ events = 0
    /\ probe = NoProbe
    /\ result = NoClick

\* a click on the close button of a tab header anywhere in the document
AreaCloseClick ==
    \E t \in Tabs :
      \E s \in {handleCloseClick(Cur, t)} :
        /\ InDocument(headers[t])
        /\ Room
        /\ events < MaxEvents
        /\ closeInProgress' = s.closeInProgress
        /\ headers' = s.headers
        /\ timers' = s.timers
        /\ result' = [ clicked |-> TRUE, target |-> t, listener |-> "click",
                       intercepted |-> closestMainHeader(Cur, t) # NoHeader ]
        /\ events' = events + 1
        /\ frameLog' = << >>
        /\ UNCHANGED << settings, tabWidthCache, isAdjustmentQueued, isResetting,
                        debounceTimeout, observer, rafQueue, pendingSaves, calls,
                        probe >>

\* a middle-click on a tab header anywhere in the document
AreaMiddleClick ==
    \E t \in Tabs :
      \E s \in {handleMiddleClick(Cur, t)} :
        /\ InDocument(headers[t])
        /\ Room
        /\ events < MaxEvents
        /\ closeInProgress' = s.closeInProgress
        /\ headers' = s.headers
        /\ timers' = s.timers
        /\ result' = [ clicked |-> TRUE, target |-> t, listener |-> "auxclick",
                       intercepted |-> closestMainHeader(Cur, t) # NoHeader ]
        /\ events' = events + 1
        /\ frameLog' = << >>
        /\ UNCHANGED << settings, tabWidthCache, isAdjustmentQueued, isResetting,
                        debounceTimeout, observer, rafQueue, pendingSaves, calls,
                        probe >>

\* the host replaces the children of the icon of a tab header anywhere in the
\* document; the observers get the record if the header is in an observed root
AreaIconChange ==
    \E t \in Tabs :
        /\ InDocument(headers[t])
        /\ CountKind(timers, "iconTransition") < MaxTimers
        /\ Event(observerCallback(
                    iconObserverCallback(Cur, t),
                    << Mutation("childList", FALSE,
                                IF headers[t].dom = "dom" THEN "inHeader"
                                ELSE "outside") >>))

\* the plugin is disabled: onunload runs cleanup; no event reaches it after
Unload ==
    /\ events < MaxEvents
    /\ Len(timers) + Cardinality(getAllHeaders(Cur)) <= MaxTimers
    /\ Set([cleanup(Cur) EXCEPT !.frameLog = << >>])
    /\ events' = MaxEvents

CleanupTimerFires ==
    \E i \in 1..Len(timers) :
        /\ timers[i].kind = "cleanupDone" /\ Due(i)
        /\ Step(cleanupTimer(Fired(i), timers[i].tab))

NextArea ==
    \/ Frame
    \/ AreaCloseClick
    \/ AreaMiddleClick
    \/ CtrlW
    \/ CloseLeafFires
    \/ CloseDoneFires
    \/ FileOpen
    \/ FileOpenFires
    \/ SettingsChange
    \/ SaveDone
    \/ Reset1Fires
    \/ Reset2Fires
    \/ AreaIconChange
    \/ TransitionTimerFires
    \/ Unload
    \/ CleanupTimerFires

SpecArea == InitArea /\ [][NextArea]_vars

NoTheme == [changed |-> FALSE, cache |-> {}, flight |-> << >>, applied |-> FALSE]

\* the assignments of Set to the program's variables alone
SetProgram(s) ==
    \E r \in {s} :
        /\ settings' = r.settings
        /\ tabWidthCache' = r.tabWidthCache
        /\ isAdjustmentQueued' = r.isAdjustmentQueued
        /\ isResetting' = r.isResetting
        /\ closeInProgress' = r.closeInProgress
        /\ debounceTimeout' = r.debounceTimeout
        /\ observer' = r.observer
        /\ headers' = r.headers
        /\ rafQueue' = r.rafQueue
        /\ timers' = r.timers
        /\ pendingSaves' = r.pendingSaves
        /\ frameLog' = r.frameLog
        /\ calls' = r.calls

\* the rows of a write callback that set a cache entry
Sized(rows) == {i \in 1..Len(rows) : ~rows[i].isPinned}

\* the keys whose entry in the Map of the write phase comes from a row of old
\* (the last row of a key sets its entry)
keysFrom(rows, old) ==
    { rows[i].headerKey : i \in { j \in Sized(rows) \cap old :
          \A k \in Sized(rows) : rows[k].headerKey = rows[j].headerKey => k <= j } }

\* the rows of a read phase in state s that take their width from a cache
\* entry computed before the theme change
cacheHits(s, rows, oldKeys) ==
    { i \in Sized(rows) : /\ rows[i].headerKey \in DOMAIN s.tabWidthCache
                          /\ ~rows[i].isActive
                          /\ rows[i].headerKey \in oldKeys }

\* one callback of a frame, with the history of the widths it moves
themeCallback(a, cb) ==
    LET after == runCallback(a.s, cb)
    IN  CASE cb.kind = "write" ->
               [ a EXCEPT !.s = after,
                          !.cache = keysFrom(cb.data.rows, Head(a.flight)),
                          !.flight = Tail(a.flight),
                          !.applied = @ \/ \E i \in Head(a.flight) \cap Sized(cb.data.rows) :
                                              InDocument(a.s.headers[cb.data.rows[i].tab]) ]
          [] cb.kind = "queued" /\ Len(after.rafQueue) > Len(a.s.rafQueue) ->
               [ a EXCEPT !.s = after,
                          !.out = Append(@, cacheHits(a.s, headerData(a.s), a.cache)) ]
          [] OTHER -> [ a EXCEPT !.s = after ]

RECURSIVE themeBatch(_, _, _)
themeBatch(a, batch, n) ==
    IF n = 0 THEN a
    ELSE CHOOSE r \in { themeCallback(before, batch[n]) :
                            before \in {themeBatch(a, batch, n - 1)} } : TRUE

\* the state after onload, as in InitWith
InitTheme ==
    /\ settings \in {SettingsWith(0), SettingsWith(MaxWidthOn)}
    /\ tabWidthCache = << >>
    /\ isAdjustmentQueued = FALSE
    /\ isResetting = FALSE
    /\ closeInProgress = FALSE
    /\ debounceTimeout = FALSE
    /\ observer = FALSE
    /\ \E ti \in Titles :
          headers = [ t \in Tabs |->
                        IF t < MaxTabs THEN OpenHeader(ti, t = 1) ELSE NewHeader ]
    /\ rafQueue = << RafCb("init", << >>) >>
    /\ timers = << >>
    /\ pendingSaves = << >>
    /\ frameLog = << >>
    /\ calls = 0
    /\ events = 0
    /\ probe = NoTheme
    /\ result = NoWidth

\* an animation frame; before the theme change no width is followed
ThemeFrame ==
    /\ rafQueue # << >>
    /\ IF ~probe.changed
       THEN Frame
       ELSE LET a == themeBatch([ s |-> [Cur EXCEPT !.rafQueue = << >>, !.frameLog = << >>],
                                  cache |-> probe.cache, flight |-> probe.flight,
                                  out |-> << >>, applied |-> probe.applied ],
                                rafQueue, Len(rafQueue))
            IN  /\ SetProgram(a.s)
                /\ probe' = [ changed |-> TRUE, cache |-> a.cache, flight |-> a.out,
                              applied |-> a.applied ]
                /\ UNCHANGED << events, result >>

\* the theme changes once the observer is set up: the host changes the class
\* attribute of document.body and the observer receives the record.  Every
\* width in the cache or in the rows of a waiting write callback afterwards
\* was computed before the change.
ThemeChange ==
    /\ events < MaxEvents
    /\ observer
    /\ ~probe.changed
    /\ \E s \in {observerCallback(Cur, << Mutation("attributes", FALSE, "body") >>)} :
          LET writes == SelectSeq(s.rafQueue, LAMBDA cb : cb.kind = "write")
          IN  /\ SetProgram([s EXCEPT !.frameLog = << >>])
              /\ probe' = [ changed |-> TRUE, cache |-> DOMAIN s.tabWidthCache,
                            flight |-> [ i \in 1..Len(writes) |-> Sized(writes[i].data.rows) ],
                            applied |-> FALSE ]
    /\ events' = events + 1
    /\ UNCHANGED result

NextTheme ==
    \/ ThemeFrame
    \/ ThemeChange
    \/ HostActivate
    \/ HostOpenTab
    \/ DebounceFires
    \/ Rename
    \/ TitleSetText

SpecTheme == InitTheme /\ [][NextTheme]_vars

\* C31 (as stated): once the theme has changed, the cache holds no width
\* computed before the change and no such width has been written to a tab:
\* the change clears the cache and every later pass computes afresh, also
\* when a pass was in flight at the change.
C31_Original ==
    probe.changed => probe.cache = {} /\ ~probe.applied

\* after the theme change a pass has written a width computed before it to a
\* tab, and the cache holds such a width
C31_Witness ==
    /\ probe.changed
    /\ probe.applied
    /\ probe.cache # {}
    /\ rafQueue = << >>


\* =========================================================== batch specification
\* The observer callback on batches of more than one record.  The host removes
\* a tab header from its container (a childList record of the container with
\* the header among the removed nodes) and sets the title text of another (a
\* childList record of the title element); the records reach the callback in
\* the order of the changes.  probe holds the batch delivered last.
RemovalRecord == Mutation("childList", TRUE, "container")
TitleRecord == Mutation("childList", FALSE, "inHeader")

Batches ==
    { << RemovalRecord >>, << TitleRecord >>,
      << RemovalRecord, TitleRecord >>, << TitleRecord, RemovalRecord >> }

HasRecord(batch, m) == \E i \in 1..Len(batch) : batch[i] = m

\* the host takes header t out of the document; the tab next becomes the
\* active one if t was
detached(s, t, next) ==
    [ s EXCEPT !.headers = [ x \in Tabs |->
        IF x = t
        THEN [ s.headers[x] EXCEPT !.dom = "gone", !.isActive = FALSE,
                                   !.classes = {}, !.width = NoWidth ]
        ELSE IF s.headers[t].isActive /\ x = next
             THEN [ s.headers[x] EXCEPT !.isActive = TRUE ]
             ELSE s.headers[x] ] ]

InitBatch ==
    /\ settings = DEFAULT_SETTINGS
    /\ tabWidthCache = << >>
    /\ isAdjustmentQueued = FALSE
    /\ isResetting = FALSE
    /\ closeInProgress = FALSE
    /\ debounceTimeout = FALSE
    /\ observer = FALSE
    /\ \E a \in Tabs, ti \in [Tabs -> Titles] :
          headers = [ t \in Tabs |-> OpenHeader(ti[t], t = a) ]
    /\ rafQueue = << RafCb("init", << >>) >>
    /\ timers = << >>
    /\ pendingSaves = << >>
    /\ frameLog = << >>
    /\ calls = 0
    /\ events = 0
    /\ probe = [batch |-> << >>]
    /\ result = NoWidth

\* the host's changes of one task and the callback on their records
HostBatch ==
    \E batch \in Batches, r \in Tabs, c \in Tabs, ti \in Titles :
        /\ events < MaxEvents
        /\ r # c
        /\ HasRecord(batch, RemovalRecord) => headers[r].dom = "dom"
        /\ HasRecord(batch, TitleRecord) =>
              headers[c].dom = "dom" /\ ti # headers[c].title
        /\ LET removed == IF HasRecord(batch, RemovalRecord)
                          THEN detached(Cur, r, c) ELSE Cur
               changed == IF HasRecord(batch, TitleRecord)
                          THEN [removed EXCEPT !.headers[c].title = ti] ELSE removed
           IN  SetProgram([observerCallback(changed, batch) EXCEPT !.frameLog = << >>])
        /\ probe' = [batch |-> batch]
        /\ events' = events + 1
        /\ UNCHANGED result

NextBatch ==
    \/ Frame
    \/ HostBatch
    \/ HostActivate

SpecBatch == InitBatch /\ [][NextBatch]_vars

\* C32 (as stated): with the observer set up, no close in progress and no
\* callback pending, a batch queues a recalculation exactly if it holds a
\* record of a change inside a surviving main-area header, wherever that
\* record stands and whether or not the batch also records a removal.
C32_Original ==
    [][ (HostBatch /\ observer /\ ~closeInProgress /\ ~isAdjustmentQueued) =>
            (isAdjustmentQueued' <=> HasRecord(probe'.batch, TitleRecord)) ]_vars

\* a batch with a removal before a title change has been handled: nothing is
\* queued and the surviving tab keeps the width of its former title
C32_Witness ==
    /\ probe.batch = << RemovalRecord, TitleRecord >>
    /\ observer /\ ~closeInProgress
    /\ ~isAdjustmentQueued /\ rafQueue = << >>
    /\ \E t \in Tabs : /\ headers[t].dom = "dom"
                       /\ "autofit-tab" \in headers[t].classes
                       /\ headers[t].width # headerWidth(headers[t], settings)


\* =========================================================== close specification
\* Close gestures one after another.  result describes the latest gesture as
\* in the area specification: the header it was aimed at and whether the
\* plugin's listener stopped the event (stopPropagation, preventDefault).
\* handleKeyDown on Ctrl/Cmd+W: the first active main-area header is closed
handleKeyDown(s) ==
    LET active == {t \in getAllHeaders(s) : s.headers[t].isActive}
    IN  IF active = {} THEN s
        ELSE initiateClose(s, CHOOSE t \in active : \A u \in active : t <= u)

CloseKeyDown ==
    \E s \in {handleKeyDown(Cur)} :
        /\ Room
        /\ events < MaxEvents
        /\ closeInProgress' = s.closeInProgress
        /\ headers' = s.headers
        /\ timers' = s.timers
        /\ LET active == {t \in getAllHeaders(Cur) : headers[t].isActive}
           IN  result' = [ clicked |-> TRUE,
                           target |-> IF active = {} THEN NoHeader
                                      ELSE CHOOSE t \in active : \A u \in active : t <= u,
                           listener |-> "keydown", intercepted |-> active # {} ]
        /\ events' = events + 1
        /\ frameLog' = << >>
        /\ UNCHANGED << settings, tabWidthCache, isAdjustmentQueued, isResetting,
                        debounceTimeout, observer, rafQueue, pendingSaves, calls,
                        probe >>

NextClose ==
    \/ Frame
    \/ AreaCloseClick
    \/ AreaMiddleClick
    \/ CloseKeyDown
    \/ CloseLeafFires
    \/ CloseDoneFires
    \/ HostActivate

SpecClose == InitArea /\ [][NextClose]_vars

CloseGesture == AreaCloseClick \/ AreaMiddleClick \/ CloseKeyDown

\* C33: at most one close sequence is in progress at a time (one pending
\* timer of initiateClose at most, and one exactly while closeInProgress); a
\* close gesture on a main-area tab while closeInProgress is stopped by the
\* plugin's listener and changes nothing: no header gets the closing
\* animation, no timer is added, no header leaves the document.
C33_OneClose ==
    [][ /\ CloseTimers' <= 1
        /\ closeInProgress' <=> CloseTimers' = 1
        /\ (CloseGesture /\ closeInProgress) =>
              /\ headers' = headers
              /\ timers' = timers
              /\ closeInProgress'
              /\ result'.target \in getAllHeaders(Cur) => result'.intercepted ]_vars

\* a gesture aimed at a main-area tab other than the closing one has been
\* stopped while the close-leaf timer of the closing tab is pending: the tab is
\* open and carries no closing animation
C33_Witness ==
    /\ closeInProgress
    /\ CountKind(timers, "closeLeaf") = 1
    /\ result.clicked /\ result.intercepted
    /\ result.target \in getAllHeaders(Cur) \ {ClosingTab}
    /\ "autofit-closing" \notin headers[result.target].classes
    /\ "autofit-closing" \in headers[ClosingTab].classes


\* ====================================================== lost-trigger specification
\* Recalculation triggers during a close.  probe.dropped is history: a trigger
\* has arrived while closeInProgress was set and no read phase of a pass has
\* run since.  result is not used.
\* onload has run in a workspace that shows every tab in the main area
InitShown(p, r) ==
    /\ settings = DEFAULT_SETTINGS
    /\ tabWidthCache = << >>
    /\ isAdjustmentQueued = FALSE
    /\ isResetting = FALSE
    /\ closeInProgress = FALSE
    /\ debounceTimeout = FALSE
    /\ observer = FALSE
    /\ \E a \in Tabs, ti \in [Tabs -> Titles] :
          headers = [ t \in Tabs |-> OpenHeader(ti[t], t = a) ]
    /\ rafQueue = << RafCb("init", << >>) >>
    /\ timers = << >>
    /\ pendingSaves = << >>
    /\ frameLog = << >>
    /\ calls = 0
    /\ events = 0
    /\ probe = p
    /\ result = r

InitLost == InitShown([dropped |-> FALSE], NoWidth)

\* a trigger handled into state s: it counts as dropped when it arrives
\* during a close
Trigger(s) ==
    /\ SetProgram([s EXCEPT !.frameLog = << >>])
    /\ probe' = [dropped |-> probe.dropped \/ closeInProgress]
    /\ UNCHANGED result

\* vault 'rename'
LostRename ==
    /\ events < MaxEvents
    /\ Trigger(queueHeaderAdjustment(Cur))
    /\ events' = events + 1

\* a record of a title change reaches the observer
LostMutation ==
    \E t \in getAllHeaders(Cur), ti \in Titles :
        /\ events < MaxEvents
        /\ observer
        /\ ti # headers[t].title
        /\ Trigger(observerCallback([Cur EXCEPT !.headers[t].title = ti],
                                    << TitleRecord >>))
        /\ events' = events + 1

\* workspace 'file-open'
LostFileOpen ==
    /\ events < MaxEvents
    /\ Room
    /\ Trigger(handleFileOpen(Cur))
    /\ events' = events + 1

\* the 100 ms timer of debounceLayoutChange fires
LostDebounceFires ==
    \E i \in 1..Len(timers) :
        /\ timers[i].kind = "debounce" /\ Due(i)
        /\ Trigger(debounceTimer(Fired(i)))
        /\ UNCHANGED events

\* an animation frame; a read phase in it ends the wait of a dropped trigger
LostFrame ==
    /\ rafQueue # << >>
    /\ \E s \in {runBatch([Cur EXCEPT !.rafQueue = << >>, !.frameLog = << >>],
                          rafQueue, Len(rafQueue))} :
          /\ SetProgram(s)
          /\ probe' = [dropped |-> probe.dropped /\ ~Did(s.frameLog, "read")]
    /\ UNCHANGED << events, result >>

NextLost ==
    \/ LostFrame
    \/ LostRename
    \/ LostMutation
    \/ LostFileOpen
    \/ LayoutChange
    \/ LostDebounceFires
    \/ FileOpenFires
    \/ CloseClick
    \/ CloseLeafFires
    \/ CloseDoneFires

\* every requested frame and every timer runs
SpecLost ==
    /\ InitLost /\ [][NextLost]_vars
    /\ WF_vars(LostFrame)
    /\ WF_vars(LostDebounceFires)
    /\ WF_vars(FileOpenFires)
    /\ WF_vars(CloseLeafFires)
    /\ WF_vars(CloseDoneFires)

\* C34 (as stated): a trigger that arrives during a close is not lost: a
\* read phase of a recalculation pass eventually runs after it.
C34_Original == probe.dropped ~> ~probe.dropped

\* a trigger arrived during a close, the close is over, and nothing is left
\* to run: no pass has run and none will without a further trigger
C34_Witness ==
    /\ probe.dropped
    /\ ~closeInProgress
    /\ rafQueue = << >> /\ timers = << >>
    /\ ~isAdjustmentQueued


\* ========================================================== unload specification
\* The plugin is unloaded while callbacks it has scheduled are waiting.
\* probe.unloaded is history: onunload has run.  The host delivers no
\* workspace or vault event to an unloaded plugin, and no gesture is made
\* after the unload.  result is not used.
InitUnload == InitShown([unloaded |-> FALSE], NoWidth)

\* onunload: cleanup
UnloadPlugin ==
    /\ events < MaxEvents
    /\ ~probe.unloaded
    /\ SetProgram([cleanup(Cur) EXCEPT !.frameLog = << >>])
    /\ probe' = [unloaded |-> TRUE]
    /\ events' = MaxEvents
    /\ UNCHANGED result

NextUnload ==
    \/ Frame
    \/ Rename
    \/ LayoutChange
    \/ DebounceFires
    \/ CloseClick
    \/ CloseLeafFires
    \/ CloseDoneFires
    \/ UnloadPlugin
    \/ CleanupTimerFires

SpecUnload == InitUnload /\ [][NextUnload]_vars

\* C35 (as stated): once cleanup has run, the cache is empty, no main-area
\* header carries autofit-tab or a --header-width property, and no header
\* leaves the document through close-leaf: what was scheduled before the
\* unload neither decorates tabs nor closes one.
C35_Original ==
    [][ probe'.unloaded =>
          /\ tabWidthCache' = << >>
          /\ \A t \in Tabs :
                headers'[t].dom = "dom" =>
                   "autofit-tab" \notin headers'[t].classes /\ headers'[t].width = NoWidth
          /\ probe.unloaded => \A t \in Tabs : headers'[t].dom = headers[t].dom ]_vars

\* after the unload a waiting write phase has run: a tab carries autofit-tab
\* and a width again, the cache is filled, and nothing is left to run
C35_Witness ==
    /\ probe.unloaded
    /\ rafQueue = << >> /\ timers = << >>
    /\ tabWidthCache # << >>
    /\ \E t \in Tabs : /\ headers[t].dom = "dom"
                       /\ "autofit-tab" \in headers[t].classes
                       /\ headers[t].width # NoWidth


\* ======================================================== listener specification
\* The DOM listeners of registerEventHandlers and their teardown.  result is
\* the set of listeners attached to document.body, document and window.  A
\* listener is identified by its event type, its function object and its
\* capture flag; fn numbers the function objects in the order of their
\* creation, and every evaluation of `handler.bind(this)` or of an arrow
\* function expression creates a new one.  probe is history: onunload has run
\* (unloaded), the event type of the latest gesture (gesture), and whether
\* since the unload a gesture has invoked a handler of the plugin (invoked)
\* and the handler has stopped the event (suppressed).
Listener(type, handler, fn, capture) ==
    [type |-> type, handler |-> handler, fn |-> fn, capture |-> capture]

addEventListener(L, type, handler, fn, capture) ==
    IF \E l \in L : l.type = type /\ l.fn = fn /\ l.capture = capture THEN L
    ELSE L \cup {Listener(type, handler, fn, capture)}

removeEventListener(L, type, fn, capture) ==
    { l \in L : ~(l.type = type /\ l.fn = fn /\ l.capture = capture) }

\* the addEventListener calls of registerEventHandlers: function objects 1 to 5
registerEventHandlers ==
    addEventListener(
      addEventListener(
        addEventListener(
          addEventListener(
            addEventListener({}, "click", "handleTabClick", 1, FALSE),
            "click", "handleCloseClick", 2, TRUE),
          "auxclick", "handleMiddleClick", 3, TRUE),
        "keydown", "handleKeyDown", 4, TRUE),
      "resize", "updateTabsVisibility", 5, FALSE)

\* the callbacks given to plugin.register, run by the host at unload: each
\* evaluates its bind or arrow expression anew (function objects 6 to 10)
teardown(L) ==
    removeEventListener(
      removeEventListener(
        removeEventListener(
          removeEventListener(
            removeEventListener(L, "click", 6, FALSE),
            "click", 7, TRUE),
          "auxclick", 8, TRUE),
        "keydown", 9, TRUE),
      "resize", 10, FALSE)

handlersFor(L, type) == { l.handler : l \in { x \in L : x.type = type } }

InitListeners ==
    InitShown([unloaded |-> FALSE, gesture |-> "none", invoked |-> FALSE,
               suppressed |-> FALSE],
              registerEventHandlers)

\* an event of the given type aimed at tab t: the plugin's handler runs if its
\* listener is attached and brings the state to handled; otherwise the host
\* handles the gesture itself and closes the tab
Dispatch(type, handler, handled, t) ==
    /\ events < MaxEvents
    /\ Room
    /\ LET run == handler \in handlersFor(result, type)
           others == getAllHeaders(Cur) \ {t}
       IN  /\ \E next \in (IF others = {} THEN {0} ELSE others) :
                 SetProgram([ IF run THEN handled ELSE hostDetach(Cur, t, next)
                                EXCEPT !.frameLog = << >> ])
           /\ probe' = [probe EXCEPT !.gesture = type, !.invoked = run,
                                     !.suppressed = run]
    /\ events' = events + 1
    /\ UNCHANGED result

ListenerCloseClick ==
    \E t \in getAllHeaders(Cur) :
        Dispatch("click", "handleCloseClick", handleCloseClick(Cur, t), t)

ListenerMiddleClick ==
    \E t \in getAllHeaders(Cur) :
        Dispatch("auxclick", "handleMiddleClick", handleMiddleClick(Cur, t), t)

ListenerKeyDown ==
    \E t \in getAllHeaders(Cur) :
        /\ headers[t].isActive
        /\ Dispatch("keydown", "handleKeyDown", handleKeyDown(Cur), t)

\* the host unloads the plugin: onunload, then the registered callbacks
UnloadListeners ==
    /\ events < MaxEvents
    /\ ~probe.unloaded
    /\ SetProgram([cleanup(Cur) EXCEPT !.frameLog = << >>])
    /\ result' = teardown(result)
    /\ probe' = [unloaded |-> TRUE, gesture |-> "none", invoked |-> FALSE,
                 suppressed |-> FALSE]
    /\ events' = events + 1

NextListeners ==
    \/ Frame
    \/ ListenerCloseClick
    \/ ListenerMiddleClick
    \/ ListenerKeyDown
    \/ CloseLeafFires
    \/ CloseDoneFires
    \/ UnloadListeners
    \/ CleanupTimerFires

SpecListeners == InitListeners /\ [][NextListeners]_vars

\* C36 (as stated): after the unload no click, auxclick, keydown or resize
\* listener of the plugin is attached, and no gesture invokes a handler of
\* the plugin or is stopped by one.
C36_Original ==
    probe.unloaded => result = {} /\ ~probe.invoked /\ ~probe.suppressed

\* after the unload a close gesture has been stopped by the plugin's handler,
\* which has started a close sequence
C36_Witness ==
    /\ probe.unloaded
    /\ probe.invoked /\ probe.suppressed
    /\ closeInProgress
    /\ \E t \in Tabs : headers[t].dom = "dom" /\ "autofit-closing" \in headers[t].classes


\* =========================================================== cache specification
\* Passes over tabs that share titles, change titles and are closed, under
\* changes of maxWidth; 'Ignore pinned tabs' is on and any tab may be pinned
\* from the start.  A title may change and a tab may close between the read
\* phase and the write phase of a pass.
NextCache ==
    \/ Frame
    \/ TitleSetText
    \/ SettingsChange
    \/ SaveDone
    \/ Reset1Fires
    \/ Reset2Fires
    \/ CloseClick
    \/ CloseLeafFires
    \/ CloseDoneFires

SpecCache == InitPinned /\ [][NextCache]_vars

\* C37: when a frame has run a write phase, the keys of the cache are exactly
\* the title texts, as the pass read them, of the headers of the pass that
\* are not ignored, and each key holds the width the pass used for the last
\* of its headers in document order; nothing else stays in the cache.
C37_CacheAfterPass ==
    [][ (Frame /\ (Did(frameLog', "write") \/ Did(frameLog', "writeReset"))) =>
          LET last == CHOOSE i \in 1..Len(rafQueue) :
                         /\ rafQueue[i].kind = "write"
                         /\ \A j \in (i + 1)..Len(rafQueue) : rafQueue[j].kind # "write"
              rows == rafQueue[last].data.rows
              sized == { i \in 1..Len(rows) : ~rows[i].isPinned }
          IN  /\ DOMAIN tabWidthCache' = { rows[i].headerKey : i \in sized }
              /\ \A i \in sized :
                    /\ \A j \in sized : i < j => rows[i].tab < rows[j].tab
                    /\ (\A j \in sized : j > i => rows[j].headerKey # rows[i].headerKey)
                          => tabWidthCache'[rows[i].headerKey] = rows[i].cachedWidth ]_vars

\* C37 (as stated): when a frame has run a write phase, the keys of the cache
\* are exactly the title texts shown by the headers the pass sized, each
\* holding the width the pass used for the last header showing it; no entry
\* stays for a title that none of them shows.
C37_Original ==
    [][ (Frame /\ (Did(frameLog', "write") \/ Did(frameLog', "writeReset"))) =>
          LET last == CHOOSE i \in 1..Len(rafQueue) :
                         /\ rafQueue[i].kind = "write"
                         /\ \A j \in (i + 1)..Len(rafQueue) : rafQueue[j].kind # "write"
              rows == rafQueue[last].data.rows
              sized == { i \in 1..Len(rows) : ~rows[i].isPinned }
              shown(i) == getHeaderKey(headers'[rows[i].tab])
          IN  /\ DOMAIN tabWidthCache' = { shown(i) : i \in sized }
              /\ \A i \in sized :
                    (\A j \in sized : j > i => shown(j) # shown(i))
                        => tabWidthCache'[shown(i)] = rows[i].cachedWidth ]_vars

\* a write phase has just sized two headers that share a title with different
\* widths: the cache holds the width of the later one
C37_Witness ==
    /\ Did(frameLog, "write")
    /\ \E t, u \in getAllHeaders(Cur) \ PinnedHeaders :
          /\ t < u
          /\ headers[t].title = headers[u].title
          /\ headers[t].width # headers[u].width
          /\ headers[t].width # NoWidth /\ headers[u].width # NoWidth
          /\ DOMAIN tabWidthCache = {getHeaderKey(headers[u])}
          /\ tabWidthCache[getHeaderKey(headers[u])] = headers[u].width


====
